---- MODULE Spec2Model ----
(***************************************************************************)
(* Carrom Arena automation core as state machines: SimpleAutomation        *)
(* (src/automation.ts), GameProcessor and AutomationService                *)
(* (src/GameProcessor.ts), WalletProcessor and EventProcessor              *)
(* (src/WalletProcessor.ts), SystemProcessor and ProcessorManager          *)
(* (src/ProcessorManager.ts), ProcessorOrchestrator                        *)
(* (src/ProcessorOrchestrator.ts).                                         *)
(* Every component has its own specifications (SpecAutomation, SpecGame,   *)
(* SpecGameLive, SpecGameRetention, SpecGameWaiting, SpecGameQueue,        *)
(* SpecWallet, SpecWalletOps, SpecWalletReplay, SpecEvent, SpecEventRules, *)
(* SpecLifecycle, SpecService, SpecManager, SpecSupervisor); the variables *)
(* of the components a specification leaves out keep their constructed     *)
(* value.                                                                  *)
(***************************************************************************)
EXTENDS Integers, Sequences, FiniteSets, TLC

VARIABLES
    sa_matches,        \* SimpleAutomation.matches: match id (1..n) -> MatchData
    sa_wallets,        \* SimpleAutomation.wallets, read through getWalletBalance
    sa_transactions,   \* SimpleAutomation.transactions (the log)
    sa_completeMissed, \* completeMatch has been called with an id that names no match
    sa_deducted,       \* per match: what createMatch's two deductFromWallet calls took
    gp_matches,        \* GameProcessor.state.matches: id -> Match
    gp_players,        \* GameProcessor.state.players: id -> walletBalance
    gp_transactions,   \* GameProcessor.state.transactions
    gp_matchQueue,     \* GameProcessor.state.matchQueue
    gp_timers,         \* GameProcessor.intervals, keys match_<id>: id -> due time
    gp_nextMatch,      \* number of match ids handed out so far
    gp_now,            \* Date.now()
    wp_tx,             \* every Transaction object WalletProcessor created: id -> fields
    wp_playerBalances, \* WalletProcessor.state.playerBalances
    wp_pendingDeposits,    \* state.pendingDeposits (transaction ids)
    wp_pendingWithdrawals, \* state.pendingWithdrawals (transaction ids)
    wp_reviewTimers,   \* pending setTimeout callbacks of queueForManualReview
    wp_developerBalance,   \* WalletProcessor.state.developerBalance
    wp_now,            \* Date.now() as WalletProcessor reads it
    wp_discrepancyWarned,  \* handleBalanceDiscrepancy has written its warning
    ep_eventQueue,     \* EventProcessor.eventQueue
    ep_events,         \* EventProcessor.events: the events processed, in order
    ep_totalEvents,    \* EventProcessor.stats.totalEvents
    ep_errorEvents,    \* EventProcessor.stats.errorEvents
    ep_rules,          \* EventProcessor.rules, in registration order
    ep_matchTimers,    \* pending setTimeout callbacks of startMatchTimer, per match
    pm_isSystemRunning,  \* ProcessorManager.isSystemRunning
    pm_monitoring,     \* ProcessorManager.monitoringTimer is registered and not cleared
    pm_status,         \* ProcessorManager.processorStatuses
    pm_started,        \* per managed processor: the manager's last call was start()
    pm_checks,         \* the performSystemHealthCheck calls in flight
    po_isOrchestrating,    \* ProcessorOrchestrator.isOrchestrating
    po_status,         \* ProcessorOrchestrator.processorStatuses
    po_started,        \* per processor: the orchestrator's last call was its start method
    po_restarts,       \* pending setTimeout callbacks of restartProcessor, per processor
    po_now,            \* Date.now() as the orchestrator reads it
    gp_life,           \* GameProcessor: isRunning, interval registrations, delayed starts
    wp_life,           \* WalletProcessor: the same
    ep_life,           \* EventProcessor: isProcessing, processingInterval, delayed starts
    sp_life,           \* SystemProcessor: the same
    as_life            \* AutomationService: status.isRunning, intervals, pending calls

sa_vars == <<sa_matches, sa_wallets, sa_transactions, sa_completeMissed, sa_deducted>>
gp_vars == <<gp_matches, gp_players, gp_transactions, gp_matchQueue, gp_timers,
             gp_nextMatch, gp_now>>
wp_vars == <<wp_tx, wp_playerBalances, wp_pendingDeposits, wp_pendingWithdrawals,
             wp_reviewTimers, wp_developerBalance, wp_now, wp_discrepancyWarned>>
ep_vars == <<ep_eventQueue, ep_events, ep_totalEvents, ep_errorEvents, ep_rules,
             ep_matchTimers>>
life_vars == <<gp_life, wp_life, ep_life, sp_life, as_life>>
pm_vars == <<pm_isSystemRunning, pm_monitoring, pm_status, pm_started, pm_checks>>
po_vars == <<po_isOrchestrating, po_status, po_started, po_restarts, po_now>>
mgr_vars == <<pm_vars, po_vars>>
vars == <<sa_vars, gp_vars, wp_vars, ep_vars, life_vars, mgr_vars>>

\* Sum of f[x] over the finite set S.
RECURSIVE SumOver(_, _)
SumOver(S, f) ==
    IF S = {} THEN 0
    ELSE LET x == CHOOSE y \in S : TRUE IN f[x] + SumOver(S \ {x}, f)

\* Math.abs
Abs(n) == IF n < 0 THEN -n ELSE n

(***************************************************************************)
(* Lifecycle shared by GameProcessor, WalletProcessor, EventProcessor and  *)
(* SystemProcessor: a guarded start, stop(), restart() = stop() and a      *)
(* delayed start.  A processor's periodic tasks are registered and cleared *)
(* together, so one count stands for each of them.                         *)
(*   isRunning  the isRunning / isProcessing flag                          *)
(*   live       setInterval registrations of a periodic task not cleared   *)
(*   tracked    how many of them the processor still holds a handle to     *)
(*   starts     setTimeout callbacks of restart() that have not fired yet  *)
(*   lastCall   the last of constructor ("start"), stop(), restart() called*)
(***************************************************************************)
LCMaxStarts == 2       \* restart() is not called with this many delayed starts pending

\* The state the constructor leaves: it calls the start method.
LifeStarted == [isRunning |-> TRUE, live |-> 1, tracked |-> 1, starts |-> 0,
                lastCall |-> "start"]

\* Variant of startProcessing without the isRunning guard.
startProcessingUnguarded(l) ==
    [l EXCEPT !.isRunning = TRUE, !.live = @ + 1, !.tracked = 1]
\* startAutomatedProcessing / startAutomatedWalletProcessing / startEventProcessing /
\* startSystemProcessing: return when running, else register the intervals; a handle
\* stored under a key that is taken replaces the earlier handle.
startProcessing(l) ==
    IF l.isRunning THEN l
    ELSE [l EXCEPT !.isRunning = TRUE, !.live = @ + 1, !.tracked = 1]

\* stop(): clears the intervals it holds a handle to.
stopProcessing(l) ==
    [l EXCEPT !.isRunning = FALSE, !.live = @ - l.tracked, !.tracked = 0,
              !.lastCall = "stop"]

\* restart(): stop(), then setTimeout(start)
restartProcessing(l) ==
    [stopProcessing(l) EXCEPT !.starts = @ + 1, !.lastCall = "restart"]

\* The setTimeout callback of restart()
delayedStart(l) == [startProcessing(l) EXCEPT !.starts = @ - 1]

\* A periodic task of the processor can fire.
IntervalLive(l) == l.live > 0

(***************************************************************************)
(* SimpleAutomation                                                        *)
(***************************************************************************)
SAMaxMatches == 1      \* matches created in one run
SAMaxTx == 4           \* length of the transaction log
SAMaxCredit == 15      \* creditToWallet is not called above this balance

SAWinnerPayout == 16
SAServerFee == 4
SADefaultBet == 10
SADeveloperInitial == 10000

SAPlayers == {"u1", "u2"}
SAUsers == SAPlayers \cup {"u3", "developer"}
SABetAmounts == {5, SADefaultBet}
SACreditAmounts == {10, 15}
SAMatchIds == 1..(SAMaxMatches + 1)

SAInit ==
    /\ sa_matches = <<>>
    /\ sa_wallets = [u \in SAUsers |-> 0]
    /\ sa_transactions = <<>>
    /\ sa_completeMissed = FALSE
    /\ sa_deducted = <<>>

\* getWalletBalance: wallets.get(userId) || 0
getWalletBalance(w, userId) == w[userId]

\* creditToWallet, on a wallet map
creditToWallet(w, userId, amount) ==
    [w EXCEPT ![userId] = getWalletBalance(w, userId) + amount]

\* deductFromWallet, on a wallet map: no change when the balance is short
deductFromWallet(w, userId, amount) ==
    IF getWalletBalance(w, userId) >= amount
    THEN [w EXCEPT ![userId] = getWalletBalance(w, userId) - amount]
    ELSE w

\* Variant of completeMatchCredits with the two amounts exchanged.
completeMatchCreditsSwapped(w, winnerId) ==
    creditToWallet(creditToWallet(w, winnerId, SAServerFee), "developer", SAWinnerPayout)
\* The wallets after completeMatch's two credits.
completeMatchCredits(w, winnerId) ==
    creditToWallet(creditToWallet(w, winnerId, SAWinnerPayout), "developer", SAServerFee)

SACreateMatch(player1, player2, betAmount) ==
    /\ Len(sa_matches) < SAMaxMatches
    /\ sa_matches' = Append(sa_matches,
            [player1 |-> player1, player2 |-> player2, betAmount |-> betAmount,
             winner |-> "null", status |-> "pending"])
    /\ sa_wallets' = deductFromWallet(deductFromWallet(sa_wallets, player1, betAmount),
                                      player2, betAmount)
    /\ sa_deducted' = Append(sa_deducted,
            SumOver(SAUsers, [u \in SAUsers |-> sa_wallets[u] - sa_wallets'[u]]))
    /\ UNCHANGED <<sa_transactions, sa_completeMissed, gp_vars, mgr_vars, wp_vars, ep_vars, life_vars>>

\* A lookup that finds a match for every id.
matchFoundAlways(matches, matchId) == TRUE

\* this.matches.get(matchId) is a match
matchFound(matches, matchId) == matchId \in DOMAIN matches

SACompleteMatch(matchId, winnerId) ==
    IF ~matchFound(sa_matches, matchId)
    THEN /\ sa_completeMissed' = TRUE
         /\ UNCHANGED <<sa_matches, sa_wallets, sa_transactions, sa_deducted,
                        gp_vars, mgr_vars, wp_vars, ep_vars, life_vars>>
    ELSE /\ Len(sa_transactions) + 2 <= SAMaxTx
         /\ UNCHANGED <<sa_completeMissed, sa_deducted, gp_vars, mgr_vars, wp_vars, ep_vars,
                        life_vars>>
         /\ sa_matches' = [sa_matches EXCEPT ![matchId].winner = winnerId,
                                             ![matchId].status = "completed"]
         /\ sa_wallets' = completeMatchCredits(sa_wallets, winnerId)
         /\ sa_transactions' = sa_transactions \o
                <<[id |-> <<"win", matchId>>, userId |-> winnerId, type |-> "win",
                   amount |-> SAWinnerPayout, status |-> "completed"],
                  [id |-> <<"fee", matchId>>, userId |-> "developer", type |-> "fee",
                   amount |-> SAServerFee, status |-> "completed"]>>

SACreditToWallet(userId, amount) ==
    /\ getWalletBalance(sa_wallets, userId) + amount <= SAMaxCredit
    /\ sa_wallets' = creditToWallet(sa_wallets, userId, amount)
    /\ UNCHANGED <<sa_matches, sa_transactions, sa_completeMissed, sa_deducted,
                   gp_vars, mgr_vars, wp_vars, ep_vars, life_vars>>

SAInitializeDeveloperWallet ==
    /\ sa_wallets' = [sa_wallets EXCEPT !["developer"] = SADeveloperInitial]
    /\ UNCHANGED <<sa_matches, sa_transactions, sa_completeMissed, sa_deducted,
                   gp_vars, mgr_vars, wp_vars, ep_vars, life_vars>>

SANext ==
    \/ \E p1 \in SAPlayers, p2 \in SAPlayers, b \in SABetAmounts : SACreateMatch(p1, p2, b)
    \/ \E m \in SAMatchIds, w \in SAUsers : SACompleteMatch(m, w)
    \/ \E u \in SAPlayers, a \in SACreditAmounts : SACreditToWallet(u, a)
    \/ SAInitializeDeveloperWallet

(***************************************************************************)
(* GameProcessor                                                           *)
(***************************************************************************)
GPMaxMatches == 1      \* matches created in one run
GPMaxTimeSteps == 1    \* the clock advances at most this many steps

matchDuration == 60000
GPBetAmount == 10
GPWinnerPayout == 16
GPServerFee == 4
maxConcurrentMatches == 100
completedRetention == 3600000
cancelledRetention == 1800000
pairingTimeout == 120000
expiredThreshold == 86400000

GPPlayerOrder == <<"p1", "p2">>     \* the ids createPlayer hands out, in order
GPPlayerIds == {GPPlayerOrder[i] : i \in 1..Len(GPPlayerOrder)}
GPQueueIds == GPPlayerIds \cup {"unknown"}
GPInitialBalances == {5, 20}
GPTimeSteps == {matchDuration}
GPMaxNow == 1 + GPMaxTimeSteps * matchDuration
\* A sweep runs only while the log is at most this long: room for the two bets and
\* two payouts of every match.
GPMaxSweepTx == 4 * GPMaxMatches
\* A balance that pays the bet of every match of a run.
GPLiveBalance == GPBetAmount * GPMaxMatches
NoTime == -1           \* an optional timestamp that is undefined
NoPlayer == "null"

\* JavaScript truthiness of an optional timestamp
Truthy(t) == t # NoTime /\ t # 0

GPInit ==
    /\ gp_life = LifeStarted
    /\ gp_matches = <<>>
    /\ gp_players = [p \in {} |-> 0]
    /\ gp_transactions = <<>>
    /\ gp_matchQueue = <<>>
    /\ gp_timers = [m \in {} |-> 0]
    /\ gp_nextMatch = 0
    /\ gp_now = 1

\* The part of the state the match handlers work on.
GPState == [matches |-> gp_matches, players |-> gp_players,
            tx |-> gp_transactions, timers |-> gp_timers, next |-> gp_nextMatch]

createTransaction(st, playerId, type, amount, matchId) ==
    [st EXCEPT !.tx = Append(@, [playerId |-> playerId, type |-> type, amount |-> amount,
                                 status |-> "completed", matchId |-> matchId])]

\* creditDeveloperFee only writes to the console.
creditDeveloperFee(st, amount, matchId) == st

cancelMatch(st, matchId, now) ==
    IF matchId \in DOMAIN st.matches
    THEN [st EXCEPT !.matches[matchId].status = "cancelled",
                    !.matches[matchId].endTime = now]
    ELSE st

endMatch(st, matchId) ==
    IF matchId \in DOMAIN st.matches
    THEN [st EXCEPT !.matches[matchId].status = "finishing"]
    ELSE st

\* Map.delete on the match set
RemoveKey(f, k) == [x \in (DOMAIN f) \ {k} |-> f[x]]

cleanupMatch(st, matchId) ==
    [st EXCEPT !.matches = RemoveKey(@, matchId),
               !.timers = RemoveKey(@, matchId)]

setMatchTimer(st, matchId, now) ==
    [st EXCEPT !.timers = [x \in (DOMAIN @) \cup {matchId} |->
                              IF x = matchId THEN now + matchDuration ELSE @[x]]]

\* One iteration of processAutomaticBetDeduction's forEach, for one player.
deductBet(st, matchId, playerId, now) ==
    IF st.players[playerId] >= GPBetAmount
    THEN createTransaction([st EXCEPT !.players[playerId] = @ - GPBetAmount],
                           playerId, "bet", -GPBetAmount, matchId)
    ELSE cancelMatch(st, matchId, now)

RECURSIVE processAutomaticBetDeductionFrom(_, _, _, _)
processAutomaticBetDeductionFrom(st, matchId, i, now) ==
    LET ps == st.matches[matchId].players IN
    IF i > Len(ps) THEN st
    ELSE processAutomaticBetDeductionFrom(deductBet(st, matchId, ps[i], now),
                                          matchId, i + 1, now)

processAutomaticBetDeduction(st, matchId, now) ==
    processAutomaticBetDeductionFrom(st, matchId, 1, now)

processAutomaticPayout(st, matchId) ==
    LET winner == st.matches[matchId].winner IN
    IF winner = NoPlayer THEN st
    ELSE creditDeveloperFee(
            createTransaction([st EXCEPT !.players[winner] = @ + GPWinnerPayout],
                              winner, "win", GPWinnerPayout, matchId),
            GPServerFee, matchId)

RECURSIVE processAutomaticRefundFrom(_, _, _)
processAutomaticRefundFrom(st, matchId, i) ==
    LET ps == st.matches[matchId].players IN
    IF i > Len(ps) THEN st
    ELSE processAutomaticRefundFrom(
            createTransaction([st EXCEPT !.players[ps[i]] = @ + GPBetAmount],
                              ps[i], "refund", GPBetAmount, matchId),
            matchId, i + 1)

processAutomaticRefund(st, matchId) == processAutomaticRefundFrom(st, matchId, 1)

\* Variant of determineMatchWinner that never determines a winner.
determineMatchWinnerNone(match, pick) == NoPlayer
\* determineMatchWinner: players[Math.floor(Math.random() * 2)], pick is that index + 1
determineMatchWinner(match, pick) ==
    IF Len(match.players) = 2 THEN match.players[pick] ELSE NoPlayer

processActiveMatch(st, matchId, now) ==
    LET match == st.matches[matchId]
        remaining == matchDuration - (now - match.startTime) IN
    IF ~Truthy(match.startTime) THEN st
    ELSE IF remaining <= 0 THEN endMatch(st, matchId)
    ELSE st

processFinishingMatch(st, matchId, now, pick) ==
    LET winner == determineMatchWinner(st.matches[matchId], pick) IN
    IF winner # NoPlayer
    THEN processAutomaticPayout(
            [st EXCEPT !.matches[matchId].winner = winner,
                       !.matches[matchId].status = "completed",
                       !.matches[matchId].endTime = now],
            matchId)
    ELSE st

processCompletedMatch(st, matchId, now) ==
    LET match == st.matches[matchId] IN
    IF Truthy(match.endTime) /\ now - match.endTime > completedRetention
    THEN cleanupMatch(st, matchId)
    ELSE st

processCancelledMatch(st, matchId, now) ==
    LET refunded == processAutomaticRefund(st, matchId)
        match == refunded.matches[matchId] IN
    IF Truthy(match.endTime) /\ now - match.endTime > cancelledRetention
    THEN cleanupMatch(refunded, matchId)
    ELSE refunded

\* isPlayerInMatch: some match of the map has the player
isPlayerInMatch(st, playerId) ==
    \E m \in DOMAIN st.matches :
        \E i \in 1..Len(st.matches[m].players) : st.matches[m].players[i] = playerId

\* findAvailableOpponent: the first player of the map, other than excludePlayerId, who
\* can pay the bet and is in no match.  Every player is online: createPlayer sets the
\* status, and it changes only after five minutes without activity.
findAvailableOpponent(st, excludePlayerId) ==
    LET available == {i \in 1..Len(GPPlayerOrder) :
                         /\ GPPlayerOrder[i] \in DOMAIN st.players
                         /\ GPPlayerOrder[i] # excludePlayerId
                         /\ st.players[GPPlayerOrder[i]] >= GPBetAmount
                         /\ ~isPlayerInMatch(st, GPPlayerOrder[i])} IN
    IF available = {} THEN NoPlayer
    ELSE GPPlayerOrder[CHOOSE i \in available : \A j \in available : i <= j]

\* processWaitingMatch: the pairing, then the test of the waiting time
processWaitingMatch(st, matchId, now) ==
    LET match == st.matches[matchId]
        opponent == IF Len(match.players) = 1
                    THEN findAvailableOpponent(st, match.players[1])
                    ELSE NoPlayer
        paired == IF opponent # NoPlayer
                  THEN setMatchTimer(
                          processAutomaticBetDeduction(
                             [st EXCEPT !.matches[matchId].players = Append(@, opponent),
                                        !.matches[matchId].status = "active",
                                        !.matches[matchId].startTime = now],
                             matchId, now),
                          matchId, now)
                  ELSE st IN
    IF Truthy(match.createdAt) /\ now - match.createdAt > pairingTimeout
    THEN cancelMatch(paired, matchId, now)
    ELSE paired

\* processMatchState
processMatchState(st, matchId, now, pick) ==
    LET status == st.matches[matchId].status IN
    CASE status = "waiting" -> processWaitingMatch(st, matchId, now)
      [] status = "active" -> processActiveMatch(st, matchId, now)
      [] status = "finishing" -> processFinishingMatch(st, matchId, now, pick)
      [] status = "completed" -> processCompletedMatch(st, matchId, now)
      [] status = "cancelled" -> processCancelledMatch(st, matchId, now)
      [] OTHER -> st

\* processMainLoop's forEach over the match set, in insertion order (ascending id).
RECURSIVE processMatchesFrom(_, _, _, _)
processMatchesFrom(st, matchId, now, picks) ==
    IF matchId > st.next THEN st
    ELSE processMatchesFrom(
            IF matchId \in DOMAIN st.matches
            THEN processMatchState(st, matchId, now, picks[matchId]) ELSE st,
            matchId + 1, now, picks)

createAutomaticMatch(st, player1, player2, now) ==
    LET id == st.next + 1
        match == [players |-> <<player1, player2>>, status |-> "active",
                  createdAt |-> now, startTime |-> now, endTime |-> NoTime,
                  winner |-> NoPlayer]
        added == [st EXCEPT !.next = id,
                            !.matches = [x \in (DOMAIN @) \cup {id} |->
                                            IF x = id THEN match ELSE @[x]]] IN
    setMatchTimer(processAutomaticBetDeduction(added, id, now), id, now)

\* The while loop of processMatchQueue: the queue that is left and the state reached.
RECURSIVE processMatchQueueLoop(_, _, _)
processMatchQueueLoop(st, queue, now) ==
    IF Len(queue) >= 2 /\ Cardinality(DOMAIN st.matches) < maxConcurrentMatches
    THEN LET player1Id == queue[1]
             player2Id == queue[2]
             rest == SubSeq(queue, 3, Len(queue)) IN
         processMatchQueueLoop(
            IF player1Id \in DOMAIN st.players /\ player2Id \in DOMAIN st.players
            THEN createAutomaticMatch(st, player1Id, player2Id, now) ELSE st,
            rest, now)
    ELSE [st |-> st, queue |-> queue]

InQueue(queue, playerId) == \E i \in 1..Len(queue) : queue[i] = playerId

GPCreatePlayer(walletBalance) ==
    /\ Cardinality(DOMAIN gp_players) < Len(GPPlayerOrder)
    /\ LET id == GPPlayerOrder[Cardinality(DOMAIN gp_players) + 1] IN
       gp_players' = [x \in (DOMAIN gp_players) \cup {id} |->
                         IF x = id THEN walletBalance ELSE gp_players[x]]
    /\ UNCHANGED <<gp_matches, gp_transactions, gp_matchQueue, gp_timers,
                   gp_nextMatch, gp_now, sa_vars, mgr_vars, wp_vars, ep_vars, life_vars>>

GPAddPlayerToQueue(playerId) ==
    /\ playerId \in (DOMAIN gp_players) \cup {"unknown"}
    /\ gp_matchQueue' = IF InQueue(gp_matchQueue, playerId) THEN gp_matchQueue
                        ELSE Append(gp_matchQueue, playerId)
    /\ UNCHANGED <<gp_matches, gp_players, gp_transactions, gp_timers,
                   gp_nextMatch, gp_now, sa_vars, mgr_vars, wp_vars, ep_vars, life_vars>>

\* The queue interval's callback.  Matches are created only while the id bound and
\* the clock's horizon leave room for them.
GPProcessMatchQueueUpTo(maxMatches) ==
    /\ IntervalLive(gp_life)
    /\ gp_nextMatch + (Len(gp_matchQueue) \div 2) <= maxMatches
    /\ gp_now + matchDuration <= GPMaxNow
    /\ LET r == IF Len(gp_matchQueue) = 0
                THEN [st |-> GPState, queue |-> gp_matchQueue]
                ELSE processMatchQueueLoop(GPState, gp_matchQueue, gp_now) IN
       /\ gp_matches' = r.st.matches
       /\ gp_players' = r.st.players
       /\ gp_transactions' = r.st.tx
       /\ gp_timers' = r.st.timers
       /\ gp_nextMatch' = r.st.next
       /\ gp_matchQueue' = r.queue
    /\ UNCHANGED <<gp_now, sa_vars, mgr_vars, wp_vars, ep_vars, life_vars>>

GPProcessMatchQueue == GPProcessMatchQueueUpTo(GPMaxMatches)

\* The main interval's callback (processMainLoop).
GPSweep ==
    /\ IntervalLive(gp_life)
    /\ Len(gp_transactions) <= GPMaxSweepTx
    /\ \E picks \in [1..gp_nextMatch -> 1..2] :
         LET st == processMatchesFrom(GPState, 1, gp_now, picks) IN
         /\ gp_matches' = st.matches
         /\ gp_players' = st.players
         /\ gp_transactions' = st.tx
         /\ gp_timers' = st.timers
    /\ UNCHANGED <<gp_matchQueue, gp_nextMatch, gp_now, sa_vars, mgr_vars, wp_vars, ep_vars, life_vars>>

\* The setTimeout callback of setMatchTimer, no earlier than its delay.
GPMatchTimer(matchId) ==
    /\ matchId \in DOMAIN gp_timers
    /\ gp_now >= gp_timers[matchId]
    /\ gp_matches' = endMatch(GPState, matchId).matches
    /\ gp_timers' = RemoveKey(gp_timers, matchId)
    /\ UNCHANGED <<gp_players, gp_transactions, gp_matchQueue, gp_nextMatch, gp_now,
                   sa_vars, mgr_vars, wp_vars, ep_vars, life_vars>>

GPAdvanceTime(d) ==
    /\ gp_now + d <= GPMaxNow
    /\ gp_now' = gp_now + d
    /\ UNCHANGED <<gp_matches, gp_players, gp_transactions, gp_matchQueue,
                   gp_timers, gp_nextMatch, sa_vars, mgr_vars, wp_vars, ep_vars, life_vars>>

\* A match of one player with status "waiting" in the match map.  Match allows the
\* status and processMatchState has its case; createAutomaticMatch, the only
\* constructor of the class, makes active matches.
GPOpenWaitingMatch(playerId) ==
    /\ playerId \in DOMAIN gp_players
    /\ gp_nextMatch < GPMaxMatches
    /\ ~isPlayerInMatch(GPState, playerId)
    /\ gp_nextMatch' = gp_nextMatch + 1
    /\ gp_matches' = [x \in (DOMAIN gp_matches) \cup {gp_nextMatch + 1} |->
                         IF x = gp_nextMatch + 1
                         THEN [players |-> <<playerId>>, status |-> "waiting",
                               createdAt |-> gp_now, startTime |-> NoTime,
                               endTime |-> NoTime, winner |-> NoPlayer]
                         ELSE gp_matches[x]]
    /\ UNCHANGED <<gp_players, gp_transactions, gp_matchQueue, gp_timers, gp_now,
                   sa_vars, mgr_vars, wp_vars, ep_vars, life_vars>>

\* The main loop would change the match now.
SweepDue(matchId) ==
    LET match == gp_matches[matchId] IN
    \/ match.status = "finishing"
    \/ match.status = "active" /\ Truthy(match.startTime)
          /\ matchDuration - (gp_now - match.startTime) <= 0
    \/ match.status = "completed" /\ Truthy(match.endTime)
          /\ gp_now - match.endTime > completedRetention
    \/ match.status = "cancelled" /\ Truthy(match.endTime)
          /\ gp_now - match.endTime > cancelledRetention
    \/ match.status = "waiting"
          /\ \/ gp_now - match.createdAt > pairingTimeout
             \/ findAvailableOpponent(GPState, match.players[1]) # NoPlayer

\* cleanupExpiredSessions: every match created more than 24 hours ago leaves the map
cleanupExpiredSessions(st, now) ==
    LET kept == {m \in DOMAIN st.matches :
                    ~(Truthy(st.matches[m].createdAt)
                        /\ now - st.matches[m].createdAt > expiredThreshold)} IN
    [st EXCEPT !.matches = [m \in kept |-> st.matches[m]]]

\* The cleanup interval's callback (processCleanup).  The main interval (1 s) has
\* fired before the cleanup interval (30 s) does, so nothing is due in the main loop.
\* cleanupOldTransactions (30 days) is beyond the clock's horizon.
GPCleanup ==
    /\ IntervalLive(gp_life)
    /\ \A m \in DOMAIN gp_matches : ~SweepDue(m)
    /\ gp_matches' = cleanupExpiredSessions(GPState, gp_now).matches
    /\ UNCHANGED <<gp_players, gp_transactions, gp_matchQueue, gp_timers, gp_nextMatch,
                   gp_now, sa_vars, mgr_vars, wp_vars, ep_vars, life_vars>>

\* Nothing happens within a long time step: no timer and no delayed start is pending,
\* and while the intervals are live every match is completed or waits for an
\* opponent that is not there.
GPQuiet ==
    /\ gp_life.starts = 0
    /\ DOMAIN gp_timers = {}
    /\ IntervalLive(gp_life) =>
          \A m \in DOMAIN gp_matches :
              \/ gp_matches[m].status = "completed"
              \/ /\ gp_matches[m].status = "waiting"
                 /\ findAvailableOpponent(GPState, gp_matches[m].players[1]) = NoPlayer

\* The clock moves by a retention window or a timeout, once, from within the horizon
\* of the matches.
GPAdvanceLong(d) ==
    /\ gp_now <= GPMaxNow
    /\ GPQuiet
    /\ gp_now' = gp_now + d
    /\ UNCHANGED <<gp_matches, gp_players, gp_transactions, gp_matchQueue,
                   gp_timers, gp_nextMatch, sa_vars, mgr_vars, wp_vars, ep_vars, life_vars>>

GPNextWith(balances) ==
    \/ \E b \in balances : GPCreatePlayer(b)
    \/ \E p \in GPQueueIds : GPAddPlayerToQueue(p)
    \/ GPProcessMatchQueue
    \/ GPSweep
    \/ \E m \in 1..GPMaxMatches : GPMatchTimer(m)
    \/ \E d \in GPTimeSteps : GPAdvanceTime(d)

(***************************************************************************)
(* WalletProcessor                                                         *)
(***************************************************************************)
WPMaxTx == 3           \* processDeposit / processWithdrawal calls in one run

minDeposit == 10
maxDeposit == 2000
minWithdrawal == 10
maxWithdrawal == 2000
autoApprovalLimit == 500

WPPlayers == {"w1", "w2"}
WPDepositAmounts == {5, 600}            \* the amount argument of processDeposit
WPWithdrawalAmounts == {-600, 50, 600}  \* the amount argument of processWithdrawal

WPMaxTimeSteps == 1    \* the wallet clock advances at most this many steps
WPMaxRetries == 1      \* retryTransaction is not called on a transaction retried this often

developerInitialBalance == 10000
thirtyDays == 2592000           \* 30 * 24 * 60 * 60 seconds: the wallet clock counts seconds
integrityTolerance == 1
maxRetryCount == 3
stuckThreshold == 300           \* 5 minutes, in seconds
developerWalletId == "dev_wallet_main"
WPFeeAmounts == {4}
WPTimeSteps == {thirtyDays + 1}
WPMaxNow == 1 + WPMaxTimeSteps * (thirtyDays + 1)

WPInit ==
    /\ wp_life = LifeStarted
    /\ wp_developerBalance = developerInitialBalance
    /\ wp_now = 1
    /\ wp_discrepancyWarned = FALSE
    /\ wp_tx = <<>>
    /\ wp_playerBalances = [p \in WPPlayers \cup {developerWalletId} |-> 0]
    /\ wp_pendingDeposits = <<>>
    /\ wp_pendingWithdrawals = <<>>
    /\ wp_reviewTimers = {}

\* The wallet fields the deposit and withdrawal handlers leave alone.
wp_side == <<wp_developerBalance, wp_now, wp_discrepancyWarned>>

\* The part of the state the transaction handlers work on.
WPState == [tx |-> wp_tx, bal |-> wp_playerBalances, review |-> wp_reviewTimers]

\* getPlayerBalance: playerBalances.get(playerId) || 0
getPlayerBalance(bal, playerId) == bal[playerId]

failTransaction(st, id) ==
    [st EXCEPT !.tx[id].status = "failed", !.tx[id].stored = TRUE]

approveDeposit(st, id) ==
    LET deposit == st.tx[id] IN
    [st EXCEPT !.bal[deposit.playerId] = getPlayerBalance(st.bal, deposit.playerId)
                                            + deposit.amount,
               !.tx[id].status = "completed",
               !.tx[id].stored = TRUE]

\* processDepositTransaction; gatewayOk is simulatePaymentGateway's answer
processDepositTransaction(st, id, gatewayOk) ==
    LET deposit == st.tx[id] IN
    IF deposit.amount < minDeposit \/ deposit.amount > maxDeposit
    THEN failTransaction(st, id)
    ELSE IF gatewayOk THEN approveDeposit(st, id)
    ELSE failTransaction(st, id)

approveWithdrawal(st, id) ==
    LET withdrawal == st.tx[id] IN
    [st EXCEPT !.bal[withdrawal.playerId] = getPlayerBalance(st.bal, withdrawal.playerId)
                                               + withdrawal.amount,
               !.tx[id].status = "completed",
               !.tx[id].stored = TRUE]

queueForManualReview(st, id) ==
    [st EXCEPT !.tx[id].status = "review", !.tx[id].stored = TRUE,
               !.review = @ \cup {id}]

\* Variant of withdrawalAmountInvalid that validates the magnitude of the amount.
withdrawalAmountInvalidAbs(amount) ==
    Abs(amount) < minWithdrawal \/ Abs(amount) > maxWithdrawal
\* The amount validation at the head of processWithdrawalTransaction; the amount
\* processWithdrawal stored is the negated request.
withdrawalAmountInvalid(amount) ==
    amount < minWithdrawal \/ amount > maxWithdrawal

processWithdrawalTransaction(st, id) ==
    LET withdrawal == st.tx[id]
        currentBalance == getPlayerBalance(st.bal, withdrawal.playerId) IN
    IF withdrawalAmountInvalid(withdrawal.amount) THEN failTransaction(st, id)
    ELSE IF currentBalance < Abs(withdrawal.amount) THEN failTransaction(st, id)
    ELSE IF Abs(withdrawal.amount) <= autoApprovalLimit THEN approveWithdrawal(st, id)
    ELSE queueForManualReview(st, id)

RECURSIVE processDepositsFrom(_, _, _, _)
processDepositsFrom(st, queue, i, gateway) ==
    IF i > Len(queue) THEN st
    ELSE processDepositsFrom(processDepositTransaction(st, queue[i], gateway[queue[i]]),
                             queue, i + 1, gateway)

RECURSIVE processWithdrawalsFrom(_, _, _)
processWithdrawalsFrom(st, queue, i) ==
    IF i > Len(queue) THEN st
    ELSE processWithdrawalsFrom(processWithdrawalTransaction(st, queue[i]), queue, i + 1)

WPProcessDeposit(playerId, amount) ==
    /\ Len(wp_tx) < WPMaxTx
    /\ wp_tx' = Append(wp_tx, [playerId |-> playerId, type |-> "deposit",
                               amount |-> amount, status |-> "pending", stored |-> FALSE,
                               timestamp |-> wp_now, retryCount |-> 0])
    /\ wp_pendingDeposits' = Append(wp_pendingDeposits, Len(wp_tx) + 1)
    /\ UNCHANGED <<wp_playerBalances, wp_pendingWithdrawals, wp_reviewTimers,
                   wp_side, sa_vars, mgr_vars, gp_vars, ep_vars, life_vars>>

WPProcessWithdrawal(playerId, amount) ==
    /\ Len(wp_tx) < WPMaxTx
    /\ wp_tx' = Append(wp_tx, [playerId |-> playerId, type |-> "withdrawal",
                               amount |-> -amount, status |-> "pending", stored |-> FALSE,
                               timestamp |-> wp_now, retryCount |-> 0])
    /\ wp_pendingWithdrawals' = Append(wp_pendingWithdrawals, Len(wp_tx) + 1)
    /\ UNCHANGED <<wp_playerBalances, wp_pendingDeposits, wp_reviewTimers,
                   wp_side, sa_vars, mgr_vars, gp_vars, ep_vars, life_vars>>

\* The deposit interval's callback (processAutomaticDeposits)
WPProcessAutomaticDeposits ==
    /\ IntervalLive(wp_life)
    /\ Len(wp_pendingDeposits) # 0
    /\ \E gateway \in [1..Len(wp_tx) -> BOOLEAN] :
         LET st == processDepositsFrom(WPState, wp_pendingDeposits, 1, gateway) IN
         /\ wp_tx' = st.tx
         /\ wp_playerBalances' = st.bal
         /\ wp_reviewTimers' = st.review
    /\ wp_pendingDeposits' = <<>>
    /\ UNCHANGED <<wp_pendingWithdrawals, wp_side, sa_vars, mgr_vars, gp_vars, ep_vars, life_vars>>

\* The withdrawal interval's callback (processAutomaticWithdrawals)
WPProcessAutomaticWithdrawals ==
    /\ IntervalLive(wp_life)
    /\ Len(wp_pendingWithdrawals) # 0
    /\ LET st == processWithdrawalsFrom(WPState, wp_pendingWithdrawals, 1) IN
       /\ wp_tx' = st.tx
       /\ wp_playerBalances' = st.bal
       /\ wp_reviewTimers' = st.review
    /\ wp_pendingWithdrawals' = <<>>
    /\ UNCHANGED <<wp_pendingDeposits, wp_side, sa_vars, mgr_vars, gp_vars, ep_vars, life_vars>>

\* The setTimeout callback of queueForManualReview
WPReviewTimer(id) ==
    /\ id \in wp_reviewTimers
    /\ LET st == IF wp_tx[id].status = "review" THEN approveWithdrawal(WPState, id)
                 ELSE WPState IN
       /\ wp_tx' = st.tx
       /\ wp_playerBalances' = st.bal
    /\ wp_reviewTimers' = wp_reviewTimers \ {id}
    /\ UNCHANGED <<wp_pendingDeposits, wp_pendingWithdrawals, wp_side,
                   sa_vars, mgr_vars, gp_vars, ep_vars, life_vars>>

\* addServerFee: the fee transaction goes straight into the transaction map, pending
WPAddServerFee(amount) ==
    /\ Len(wp_tx) < WPMaxTx
    /\ wp_tx' = Append(wp_tx, [playerId |-> developerWalletId, type |-> "server_fee",
                               amount |-> amount, status |-> "pending", stored |-> TRUE,
                               timestamp |-> wp_now, retryCount |-> 0])
    /\ UNCHANGED <<wp_playerBalances, wp_pendingDeposits, wp_pendingWithdrawals,
                   wp_reviewTimers, wp_side, sa_vars, mgr_vars, gp_vars, ep_vars, life_vars>>

\* A watchdog test that does not look at the status.
isStuckAnyStatus(transaction, now) ==
    transaction.stored /\ now - transaction.timestamp > stuckThreshold

\* validateTransactions' test on an entry of the transaction map: pending for more
\* than five minutes
isStuck(transaction, now) ==
    /\ transaction.stored
    /\ transaction.status = "pending"
    /\ now - transaction.timestamp > stuckThreshold

\* The fee interval's callback (collectSystemFees).  The validation interval (15 s)
\* fires before the fee interval (30 s), so a stuck entry is handled first.
WPCollectSystemFees ==
    /\ IntervalLive(wp_life)
    /\ \A id \in DOMAIN wp_tx : ~isStuck(wp_tx[id], wp_now)
    /\ LET fees == {id \in DOMAIN wp_tx : /\ wp_tx[id].stored
                                          /\ wp_tx[id].type = "server_fee"
                                          /\ wp_tx[id].status = "pending"} IN
       /\ wp_developerBalance' = wp_developerBalance
                                   + SumOver(fees, [id \in fees |-> wp_tx[id].amount])
       /\ wp_tx' = [id \in DOMAIN wp_tx |->
                       IF id \in fees THEN [wp_tx[id] EXCEPT !.status = "completed"]
                       ELSE wp_tx[id]]
    /\ UNCHANGED <<wp_playerBalances, wp_pendingDeposits, wp_pendingWithdrawals,
                   wp_reviewTimers, wp_now, wp_discrepancyWarned,
                   sa_vars, mgr_vars, gp_vars, ep_vars, life_vars>>

\* calculateExpectedTotal: the completed amounts in the transaction map
calculateExpectedTotal(tx) ==
    LET done == {id \in DOMAIN tx : tx[id].stored /\ tx[id].status = "completed"} IN
    SumOver(done, [id \in done |-> tx[id].amount])

\* The difference validateBalanceIntegrity computes
integrityDifference(bal, tx) ==
    Abs(SumOver(DOMAIN bal, bal) - calculateExpectedTotal(tx))

\* The balance interval's callback (synchronizeBalances): validateBalanceIntegrity
\* calls handleBalanceDiscrepancy, which writes a warning and nothing else.
WPSynchronizeBalances ==
    /\ IntervalLive(wp_life)
    /\ wp_discrepancyWarned' =
          (wp_discrepancyWarned
             \/ integrityDifference(wp_playerBalances, wp_tx) > integrityTolerance)
    /\ UNCHANGED <<wp_tx, wp_playerBalances, wp_pendingDeposits, wp_pendingWithdrawals,
                   wp_reviewTimers, wp_developerBalance, wp_now,
                   sa_vars, mgr_vars, gp_vars, ep_vars, life_vars>>

\* The cleanup interval's callback (cleanupWalletData): completed transactions older
\* than thirty days leave the transaction map.
WPCleanupWalletData ==
    /\ IntervalLive(wp_life)
    /\ wp_tx' = [id \in DOMAIN wp_tx |->
                    IF /\ wp_tx[id].stored
                       /\ wp_tx[id].status = "completed"
                       /\ wp_tx[id].timestamp < wp_now - thirtyDays
                    THEN [wp_tx[id] EXCEPT !.stored = FALSE]
                    ELSE wp_tx[id]]
    /\ UNCHANGED <<wp_playerBalances, wp_pendingDeposits, wp_pendingWithdrawals,
                   wp_reviewTimers, wp_side, sa_vars, mgr_vars, gp_vars, ep_vars, life_vars>>

\* Nothing is due within a time step: a step is longer than the period of every
\* interval and the delay of every setTimeout, so the review timers, a delayed start
\* and the live intervals that have work (queued transactions, pending fees) run
\* before the clock is a step further.
WPNothingDue ==
    /\ wp_reviewTimers = {}
    /\ wp_life.starts = 0
    /\ IntervalLive(wp_life) =>
          /\ wp_pendingDeposits = <<>>
          /\ wp_pendingWithdrawals = <<>>
          /\ \A id \in DOMAIN wp_tx :
                ~(wp_tx[id].stored /\ wp_tx[id].type = "server_fee"
                    /\ wp_tx[id].status = "pending")

WPAdvanceTime(d) ==
    /\ wp_now + d <= WPMaxNow
    /\ WPNothingDue
    /\ wp_now' = wp_now + d
    /\ UNCHANGED <<wp_tx, wp_playerBalances, wp_pendingDeposits, wp_pendingWithdrawals,
                   wp_reviewTimers, wp_developerBalance, wp_discrepancyWarned,
                   sa_vars, mgr_vars, gp_vars, ep_vars, life_vars>>

\* The transactions and the two queues, for retryTransaction and the watchdog.
WPQueues == [tx |-> wp_tx, deposits |-> wp_pendingDeposits,
             withdrawals |-> wp_pendingWithdrawals]

\* retryTransaction: pending again, retryCount + 1; past maxRetryCount the transaction
\* fails, otherwise it is pushed to the queue of its type
retryTransaction(q, id) ==
    LET count == q.tx[id].retryCount + 1
        pending == [q EXCEPT !.tx[id].status = "pending", !.tx[id].retryCount = count] IN
    IF count > maxRetryCount
    THEN [pending EXCEPT !.tx[id].status = "failed", !.tx[id].stored = TRUE]
    ELSE IF q.tx[id].type = "deposit"
    THEN [pending EXCEPT !.deposits = Append(@, id)]
    ELSE IF q.tx[id].type = "withdrawal"
    THEN [pending EXCEPT !.withdrawals = Append(@, id)]
    ELSE pending

\* retryTransaction applied to the transaction object id
WPRetryTransaction(id) ==
    /\ id \in DOMAIN wp_tx
    /\ wp_tx[id].retryCount < WPMaxRetries
    /\ LET q == retryTransaction(WPQueues, id) IN
       /\ wp_tx' = q.tx
       /\ wp_pendingDeposits' = q.deposits
       /\ wp_pendingWithdrawals' = q.withdrawals
    /\ UNCHANGED <<wp_playerBalances, wp_reviewTimers, wp_side,
                   sa_vars, mgr_vars, gp_vars, ep_vars, life_vars>>

\* handleStuckTransaction: a deposit is retried, any other transaction fails
handleStuckTransaction(q, id) ==
    IF q.tx[id].type = "deposit" THEN retryTransaction(q, id)
    ELSE [q EXCEPT !.tx[id].status = "failed", !.tx[id].stored = TRUE]

RECURSIVE validateTransactionsFrom(_, _, _)
validateTransactionsFrom(q, id, now) ==
    IF id > Len(q.tx) THEN q
    ELSE validateTransactionsFrom(
             IF isStuck(q.tx[id], now) THEN handleStuckTransaction(q, id) ELSE q,
             id + 1, now)

\* The validation interval's callback (validateTransactions)
WPValidateTransactions ==
    /\ IntervalLive(wp_life)
    /\ LET q == validateTransactionsFrom(WPQueues, 1, wp_now) IN
       /\ wp_tx' = q.tx
       /\ wp_pendingDeposits' = q.deposits
       /\ wp_pendingWithdrawals' = q.withdrawals
    /\ UNCHANGED <<wp_playerBalances, wp_reviewTimers, wp_side,
                   sa_vars, mgr_vars, gp_vars, ep_vars, life_vars>>

\* WalletProcessor.stop()
WPStop ==
    /\ wp_life' = stopProcessing(wp_life)
    /\ UNCHANGED <<wp_vars, sa_vars, mgr_vars, gp_vars, ep_vars, gp_life, ep_life, sp_life, as_life>>

\* WalletProcessor.restart()
WPRestart ==
    /\ wp_life.starts < LCMaxStarts
    /\ wp_life' = restartProcessing(wp_life)
    /\ UNCHANGED <<wp_vars, sa_vars, mgr_vars, gp_vars, ep_vars, gp_life, ep_life, sp_life, as_life>>

\* The setTimeout callback of WalletProcessor.restart()
WPDelayedStart ==
    /\ wp_life.starts > 0
    /\ wp_life' = delayedStart(wp_life)
    /\ UNCHANGED <<wp_vars, sa_vars, mgr_vars, gp_vars, ep_vars, gp_life, ep_life, sp_life, as_life>>

WPNext ==
    \/ \E p \in WPPlayers, a \in WPDepositAmounts : WPProcessDeposit(p, a)
    \/ \E p \in WPPlayers, a \in WPWithdrawalAmounts : WPProcessWithdrawal(p, a)
    \/ WPProcessAutomaticDeposits
    \/ WPProcessAutomaticWithdrawals
    \/ \E id \in 1..WPMaxTx : WPReviewTimer(id)

(***************************************************************************)
(* Lifecycle of GameProcessor.  Its match timers are kept in the same      *)
(* intervals map as its periodic tasks, so stop() clears them too.         *)
(***************************************************************************)
gp_data == <<gp_matches, gp_players, gp_transactions, gp_matchQueue, gp_nextMatch, gp_now>>
NoTimers == [m \in {} |-> 0]

\* GameProcessor.stop()
GPStop ==
    /\ gp_life' = stopProcessing(gp_life)
    /\ gp_timers' = NoTimers
    /\ UNCHANGED <<gp_data, sa_vars, mgr_vars, wp_vars, ep_vars, wp_life, ep_life, sp_life, as_life>>

\* GameProcessor.restart()
GPRestart ==
    /\ gp_life.starts < LCMaxStarts
    /\ gp_life' = restartProcessing(gp_life)
    /\ gp_timers' = NoTimers
    /\ UNCHANGED <<gp_data, sa_vars, mgr_vars, wp_vars, ep_vars, wp_life, ep_life, sp_life, as_life>>

\* The setTimeout callback of GameProcessor.restart()
GPDelayedStart ==
    /\ gp_life.starts > 0
    /\ gp_life' = delayedStart(gp_life)
    /\ UNCHANGED <<gp_data, gp_timers, sa_vars, mgr_vars, wp_vars, ep_vars,
                   wp_life, ep_life, sp_life, as_life>>

(***************************************************************************)
(* SystemProcessor (src/ProcessorManager.ts): its lifecycle and the        *)
(* recovery tasks that restart the game and wallet processors.             *)
(***************************************************************************)
SPInit == sp_life = LifeStarted

\* SystemProcessor.stop(): its own intervals, then gameProcessor and walletProcessor
SPStop ==
    /\ sp_life' = stopProcessing(sp_life)
    /\ gp_life' = stopProcessing(gp_life)
    /\ gp_timers' = NoTimers
    /\ wp_life' = stopProcessing(wp_life)
    /\ UNCHANGED <<gp_data, sa_vars, mgr_vars, wp_vars, ep_vars, ep_life, as_life>>

\* SystemProcessor.restart() (forceRestart differs in the delay only)
SPRestart ==
    /\ sp_life.starts < LCMaxStarts
    /\ sp_life' = restartProcessing(sp_life)
    /\ gp_life' = stopProcessing(gp_life)
    /\ gp_timers' = NoTimers
    /\ wp_life' = stopProcessing(wp_life)
    /\ UNCHANGED <<gp_data, sa_vars, mgr_vars, wp_vars, ep_vars, ep_life, as_life>>

\* The setTimeout callback of SystemProcessor.restart()
SPDelayedStart ==
    /\ sp_life.starts > 0
    /\ sp_life' = delayedStart(sp_life)
    /\ UNCHANGED <<gp_vars, sa_vars, mgr_vars, wp_vars, ep_vars, gp_life, wp_life, ep_life, as_life>>

\* restartProcessorsIfNeeded, reached from SystemProcessor's periodic tasks when the
\* error rate is high: gameProcessor.restart() and walletProcessor.restart()
SPRestartProcessorsIfNeeded ==
    /\ IntervalLive(sp_life)
    /\ gp_life.starts < LCMaxStarts /\ wp_life.starts < LCMaxStarts
    /\ gp_life' = restartProcessing(gp_life)
    /\ gp_timers' = NoTimers
    /\ wp_life' = restartProcessing(wp_life)
    /\ UNCHANGED <<gp_data, sa_vars, mgr_vars, wp_vars, ep_vars, ep_life, sp_life, as_life>>

(***************************************************************************)
(* EventProcessor (src/WalletProcessor.ts): the rule registry, the queue,  *)
(* the dispatch tick, the match timer and the lifecycle.  An event is its  *)
(* type, its match and its data; a processed event is stored with the      *)
(* actions that ran for it, in the order they ran.                         *)
(***************************************************************************)
EPMaxCreated == 2      \* createEvent is not called from outside once this many events exist
EPMaxRules == 1        \* addRule is not called while this many added rules are registered

winThreshold == 25
NoData == -1           \* event.data is undefined; any other value: data.points

EPMatches == {"m1"}
EPExternalTypes == {"match_start", "match_end"}

\* A rule: eventType, condition, action, priority; id numbers the registrations.
Rule(eventType, condition, action, priority, id) ==
    [eventType |-> eventType, condition |-> condition, action |-> action,
     priority |-> priority, id |-> id]

\* initializeEventRules: the eight addRule calls, in their order
initializeEventRules ==
    << Rule("match_start", "always", "handleMatchStart", 100, 1),
       Rule("strike", "always", "handlePlayerStrike", 80, 2),
       Rule("score", "always", "handleScoring", 90, 3),
       Rule("foul", "always", "handleFoul", 85, 4),
       Rule("turn_change", "always", "handleTurnChange", 75, 5),
       Rule("match_end", "always", "handleMatchEnd", 95, 6),
       Rule("timeout", "always", "handleTimeout", 70, 7),
       Rule("score", "checkWinningCondition", "triggerMatchEnd", 100, 8) >>

EPInit ==
    /\ ep_life = LifeStarted
    /\ ep_rules = initializeEventRules
    /\ ep_eventQueue = <<>>
    /\ ep_events = <<>>
    /\ ep_totalEvents = 0
    /\ ep_errorEvents = 0
    /\ ep_matchTimers = [m \in EPMatches |-> 0]

\* The part of the state the rule actions work on.
EPState == [queue |-> ep_eventQueue, events |-> ep_events, total |-> ep_totalEvents,
            errors |-> ep_errorEvents, timers |-> ep_matchTimers]

\* createEvent: push to the queue, count it
createEvent(st, type, matchId, data) ==
    [st EXCEPT !.queue = Append(@, [type |-> type, matchId |-> matchId, data |-> data]),
               !.total = @ + 1]

\* startMatchTimer: a setTimeout the processor keeps no handle to
startMatchTimer(st, matchId) == [st EXCEPT !.timers[matchId] = @ + 1]

\* getMatchScores: the empty object
getMatchScores(matchId) == <<>>

\* getOpponentId: null
getOpponentId(matchId, currentPlayerId) == NoPlayer

\* shouldContinueTurn
shouldContinueTurn(event) == event.type = "score"

\* checkWinningCondition: some player of getMatchScores has 25 points or more
checkWinningCondition(event) ==
    \E playerId \in DOMAIN getMatchScores(event.matchId) :
        getMatchScores(event.matchId)[playerId] >= winThreshold

\* triggerMatchEnd: createEvent(match_end)
triggerMatchEnd(st, event) == createEvent(st, "match_end", event.matchId, 0)

\* switchTurnToOpponent: createEvent(turn_change) when there is an opponent id
switchTurnToOpponent(st, matchId, currentPlayerId) ==
    IF getOpponentId(matchId, currentPlayerId) # NoPlayer
    THEN createEvent(st, "turn_change", matchId, 0)
    ELSE st

\* evaluateTurnContinuation
evaluateTurnContinuation(st, event) ==
    IF ~shouldContinueTurn(event) THEN switchTurnToOpponent(st, event.matchId, NoPlayer)
    ELSE st

\* handleMatchStart: reads event.data.players, then starts the match timer
handleMatchStart(st, event) == startMatchTimer(st, event.matchId)

\* processFoul: createEvent(foul)
processFoul(st, event) == createEvent(st, "foul", event.matchId, 0)

\* handlePlayerStrike: isValidStrike is Math.random() > 0.1
handlePlayerStrike(st, event, valid) == IF valid THEN st ELSE processFoul(st, event)

\* handleScoring: reads event.data.points, then the win check or the turn evaluation
handleScoring(st, event) ==
    IF checkWinningCondition(event) THEN triggerMatchEnd(st, event)
    ELSE evaluateTurnContinuation(st, event)

\* handleFoul: reads event.data.foulType, then switchTurnToOpponent
handleFoul(st, event) == switchTurnToOpponent(st, event.matchId, NoPlayer)

\* handleTimeout: createEvent(match_end)
handleTimeout(st, event) == createEvent(st, "match_end", event.matchId, 0)

\* rule.eventType === event.type || rule.eventType === '*'
typeMatches(rule, event) == rule.eventType = event.type \/ rule.eventType = "*"

\* rule.condition(event) throws
conditionThrows(rule) == rule.condition = "conditionThrows"

\* rule.condition(event)
conditionHolds(rule, event) ==
    IF rule.condition = "checkWinningCondition" THEN checkWinningCondition(event) ELSE TRUE

\* rule.action(event) throws: the handlers that read a field of event.data throw a
\* TypeError when the event has no data; an added rule's action may throw by itself
actionThrows(rule, event) ==
    \/ /\ rule.action \in {"handleMatchStart", "handleScoring", "handleFoul",
                           "handleTurnChange"}
       /\ event.data = NoData
    \/ rule.action = "customThrows"

\* rule.action(event) when it does not throw; handleTurnChange, handleMatchEnd and an
\* added rule's action change no state of the processor
ruleAction(st, rule, event, valid) ==
    CASE rule.action = "handleMatchStart" -> handleMatchStart(st, event)
      [] rule.action = "handlePlayerStrike" -> handlePlayerStrike(st, event, valid)
      [] rule.action = "handleScoring" -> handleScoring(st, event)
      [] rule.action = "handleFoul" -> handleFoul(st, event)
      [] rule.action = "handleTimeout" -> handleTimeout(st, event)
      [] rule.action = "triggerMatchEnd" -> triggerMatchEnd(st, event)
      [] OTHER -> st

\* A sort step that puts a rule before the rules of its own priority.
insertRuleBeforeEqual(sorted, rule) ==
    LET k == Cardinality({i \in 1..Len(sorted) : sorted[i].priority > rule.priority}) IN
    SubSeq(sorted, 1, k) \o <<rule>> \o SubSeq(sorted, k + 1, Len(sorted))

\* sort((a, b) => b.priority - a.priority), one element: after the rules of the same
\* or a higher priority (Array.prototype.sort is stable)
insertRule(sorted, rule) ==
    LET k == Cardinality({i \in 1..Len(sorted) : sorted[i].priority >= rule.priority}) IN
    SubSeq(sorted, 1, k) \o <<rule>> \o SubSeq(sorted, k + 1, Len(sorted))

RECURSIVE sortByPriority(_)
sortByPriority(rules) ==
    IF rules = <<>> THEN <<>>
    ELSE insertRule(sortByPriority(SubSeq(rules, 1, Len(rules) - 1)), rules[Len(rules)])

\* The rules of the event's type, in registration order (the first filter).
typedRules(rules, event) ==
    LET OfType(rule) == typeMatches(rule, event) IN SelectSeq(rules, OfType)

\* matchingRules: the two filters and the sort
matchingRules(rules, event) ==
    LET Holds(rule) == conditionHolds(rule, event) IN
    sortByPriority(SelectSeq(typedRules(rules, event), Holds))

\* What is written down for an action that ran.
RanEntry(rule, threw) ==
    [action |-> rule.action, priority |-> rule.priority, id |-> rule.id, threw |-> threw]

\* One rule of the forEach without the inner try/catch: a throw leaves processEvent.
applyRuleUncaught(acc, rule, event, valid) ==
    IF acc.aborted THEN acc
    ELSE IF actionThrows(rule, event)
    THEN [acc EXCEPT !.ran = Append(@, RanEntry(rule, TRUE)), !.aborted = TRUE]
    ELSE [acc EXCEPT !.st = ruleAction(@, rule, event, valid),
                     !.ran = Append(@, RanEntry(rule, FALSE))]

\* One rule of the forEach: try { rule.action(event) } catch { errorEvents++ }
applyRule(acc, rule, event, valid) ==
    IF acc.aborted THEN acc
    ELSE IF actionThrows(rule, event)
    THEN [acc EXCEPT !.st.errors = @ + 1, !.ran = Append(@, RanEntry(rule, TRUE))]
    ELSE [acc EXCEPT !.st = ruleAction(@, rule, event, valid),
                     !.ran = Append(@, RanEntry(rule, FALSE))]

RECURSIVE runRulesFrom(_, _, _, _, _)
runRulesFrom(acc, rules, i, event, valid) ==
    IF i > Len(rules) THEN acc
    ELSE runRulesFrom(applyRule(acc, rules[i], event, valid), rules, i + 1, event, valid)

\* processEvent: the matching rules' actions in sorted order, then the event is stored
\* as processed.  An exception outside the inner try (a condition that throws) goes
\* to the outer catch: errorEvents++ and the event is not stored.
processEvent(st, rules, event, valid) ==
    LET typed == typedRules(rules, event)
        thrown == \E i \in 1..Len(typed) : conditionThrows(typed[i])
        matching == IF thrown THEN <<>> ELSE matchingRules(rules, event)
        acc == runRulesFrom([st |-> st, ran |-> <<>>, aborted |-> thrown],
                            matching, 1, event, valid)
    IN IF acc.aborted THEN [acc.st EXCEPT !.errors = @ + 1]
       ELSE [acc.st EXCEPT !.events = Append(@, [event |-> event, ran |-> acc.ran])]

RECURSIVE processEventsFrom(_, _, _, _, _)
processEventsFrom(st, rules, batch, i, valid) ==
    IF i > Len(batch) THEN st
    ELSE processEventsFrom(processEvent(st, rules, batch[i], valid[i]), rules, batch,
                           i + 1, valid)

\* A drain that leaves the processed events in the queue.
queueKept(queue) == queue

\* this.eventQueue = [] after the snapshot [...this.eventQueue]
queueAfterSnapshot(queue) == <<>>

\* createEvent called from outside
EPCreateEvent(type, matchId, data) ==
    /\ ep_totalEvents < EPMaxCreated
    /\ LET st == createEvent(EPState, type, matchId, data) IN
       /\ ep_eventQueue' = st.queue
       /\ ep_totalEvents' = st.total
    /\ UNCHANGED <<ep_rules, ep_events, ep_errorEvents, ep_matchTimers,
                   sa_vars, mgr_vars, gp_vars, wp_vars, life_vars>>

\* The number the next registration gets.
NextRuleId == IF ep_rules = <<>> THEN 1 ELSE ep_rules[Len(ep_rules)].id + 1

\* The rules registered through addRule after construction.
AddedRules ==
    LET Added(rule) == rule.action \in {"custom", "customThrows"} IN
    SelectSeq(ep_rules, Added)

\* addRule called from outside: rules.push
EPAddRule(eventType, condition, action, priority) ==
    /\ Len(AddedRules) < EPMaxRules
    /\ ep_rules' = Append(ep_rules, Rule(eventType, condition, action, priority, NextRuleId))
    /\ UNCHANGED <<ep_eventQueue, ep_events, ep_totalEvents, ep_errorEvents,
                   ep_matchTimers, sa_vars, mgr_vars, gp_vars, wp_vars, life_vars>>

\* removeRule called from outside: every rule of the event type goes
EPRemoveRule(eventType) ==
    /\ LET Kept(rule) == rule.eventType # eventType IN
       ep_rules' = SelectSeq(ep_rules, Kept)
    /\ UNCHANGED <<ep_eventQueue, ep_events, ep_totalEvents, ep_errorEvents,
                   ep_matchTimers, sa_vars, mgr_vars, gp_vars, wp_vars, life_vars>>

\* The processing interval's callback (processEventQueue); valid[i] is isValidStrike
\* for the i-th event of the batch
EPProcessEventQueue ==
    /\ IntervalLive(ep_life)
    /\ Len(ep_eventQueue) # 0
    /\ \E valid \in [1..Len(ep_eventQueue) -> BOOLEAN] :
         LET st == processEventsFrom(
                       [EPState EXCEPT !.queue = queueAfterSnapshot(ep_eventQueue)],
                       ep_rules, ep_eventQueue, 1, valid) IN
         /\ ep_eventQueue' = st.queue
         /\ ep_events' = st.events
         /\ ep_totalEvents' = st.total
         /\ ep_errorEvents' = st.errors
         /\ ep_matchTimers' = st.timers
    /\ UNCHANGED <<ep_rules, sa_vars, mgr_vars, gp_vars, wp_vars, life_vars>>

\* The setTimeout callback of startMatchTimer: createEvent(timeout)
EPMatchTimer(matchId) ==
    /\ ep_matchTimers[matchId] > 0
    /\ LET st == createEvent(EPState, "timeout", matchId, 0) IN
       /\ ep_eventQueue' = st.queue
       /\ ep_totalEvents' = st.total
    /\ ep_matchTimers' = [ep_matchTimers EXCEPT ![matchId] = @ - 1]
    /\ UNCHANGED <<ep_rules, ep_events, ep_errorEvents, sa_vars, mgr_vars, gp_vars, wp_vars,
                   life_vars>>

\* EventProcessor.stop()
EPStop ==
    /\ ep_life' = stopProcessing(ep_life)
    /\ UNCHANGED <<ep_vars, sa_vars, mgr_vars, gp_vars, wp_vars, gp_life, wp_life, sp_life, as_life>>

\* EventProcessor.restart()
EPRestart ==
    /\ ep_life.starts < LCMaxStarts
    /\ ep_life' = restartProcessing(ep_life)
    /\ UNCHANGED <<ep_vars, sa_vars, mgr_vars, gp_vars, wp_vars, gp_life, wp_life, sp_life, as_life>>

\* The setTimeout callback of EventProcessor.restart()
EPDelayedStart ==
    /\ ep_life.starts > 0
    /\ ep_life' = delayedStart(ep_life)
    /\ UNCHANGED <<ep_vars, sa_vars, mgr_vars, gp_vars, wp_vars, gp_life, wp_life, sp_life, as_life>>

(***************************************************************************)
(* AutomationService (src/GameProcessor.ts).  initialize() sets            *)
(* status.isRunning and awaits startAllProcessors; the interval            *)
(* registrations run in the continuation after the await.                  *)
(*   inits     continuations of initialize() that have not run yet         *)
(*   restarts  setTimeout callbacks of restartAutomation() not yet fired   *)
(***************************************************************************)
ASMaxPending == 4      \* pending continuations and restart callbacks together
ASMaxLive == 3         \* initialize() is not continued with this many registrations live

\* The constructor calls initialize(): its continuation is pending.
ASInit ==
    as_life = [isRunning |-> TRUE, live |-> 0, tracked |-> 0, inits |-> 1, restarts |-> 0]

\* Variant of initializeCall that returns when the service is running.
initializeCallGuarded(l) ==
    IF l.isRunning THEN l ELSE [l EXCEPT !.isRunning = TRUE, !.inits = @ + 1]
\* initialize() up to its await
initializeCall(l) == [l EXCEPT !.isRunning = TRUE, !.inits = @ + 1]

\* initialize() after its await: startMonitoringServices, setupAutomationWorkflows and
\* initializeNotifications register every task and store the handles by name.
initializeContinue(l) ==
    [l EXCEPT !.inits = @ - 1, !.live = @ + 1, !.tracked = 1]

\* AutomationService.stop(), on the service's own record
stopService(l) == [l EXCEPT !.isRunning = FALSE, !.live = @ - l.tracked, !.tracked = 0]

ASPending == as_life.inits + as_life.restarts

\* initialize() called from outside (the module calls it once more when it is loaded
\* in a browser)
ASInitialize ==
    /\ ASPending < ASMaxPending
    /\ as_life' = initializeCall(as_life)
    /\ UNCHANGED <<sa_vars, mgr_vars, gp_vars, wp_vars, ep_vars, gp_life, wp_life, ep_life, sp_life>>

ASInitializeContinue ==
    /\ as_life.inits > 0
    /\ as_life.live < ASMaxLive
    /\ as_life' = initializeContinue(as_life)
    /\ UNCHANGED <<sa_vars, mgr_vars, gp_vars, wp_vars, ep_vars, gp_life, wp_life, ep_life, sp_life>>

\* enableAutomation(): initialize() unless status.isRunning
ASEnableAutomation ==
    /\ ASPending < ASMaxPending
    /\ as_life' = IF as_life.isRunning THEN as_life ELSE initializeCall(as_life)
    /\ UNCHANGED <<sa_vars, mgr_vars, gp_vars, wp_vars, ep_vars, gp_life, wp_life, ep_life, sp_life>>

\* AutomationService.stop() (disableAutomation calls it): its own intervals, then
\* the four processors; systemProcessor.stop() stops game and wallet once more.
ASStop ==
    /\ as_life' = stopService(as_life)
    /\ gp_life' = stopProcessing(gp_life)
    /\ gp_timers' = NoTimers
    /\ wp_life' = stopProcessing(wp_life)
    /\ sp_life' = stopProcessing(sp_life)
    /\ ep_life' = stopProcessing(ep_life)
    /\ UNCHANGED <<gp_data, sa_vars, mgr_vars, wp_vars, ep_vars>>

\* restartAutomation(): stop(), then setTimeout(initialize)
ASRestartAutomation ==
    /\ ASPending < ASMaxPending
    /\ as_life' = [stopService(as_life) EXCEPT !.restarts = @ + 1]
    /\ gp_life' = stopProcessing(gp_life)
    /\ gp_timers' = NoTimers
    /\ wp_life' = stopProcessing(wp_life)
    /\ sp_life' = stopProcessing(sp_life)
    /\ ep_life' = stopProcessing(ep_life)
    /\ UNCHANGED <<gp_data, sa_vars, mgr_vars, wp_vars, ep_vars>>

\* The setTimeout callback of restartAutomation(): initialize()
ASRestartTimer ==
    /\ as_life.restarts > 0
    /\ as_life' = [initializeCall(as_life) EXCEPT !.restarts = @ - 1]
    /\ UNCHANGED <<sa_vars, mgr_vars, gp_vars, wp_vars, ep_vars, gp_life, wp_life, ep_life, sp_life>>

(***************************************************************************)
(* ProcessorManager (src/ProcessorManager.ts) and ProcessorOrchestrator    *)
(* (src/ProcessorOrchestrator.ts): the supervisors that start, stop,       *)
(* health-check and restart the processors they manage.  Of a managed      *)
(* processor the model keeps which of its start and stop methods the       *)
(* supervisor called last.                                                 *)
(*   pm_checks  the performSystemHealthCheck calls in flight; each is at   *)
(*              processor idx of the loop, waiting for checkProcessorHealth*)
(*              ("health") or for the delay of restartProcessor ("restart")*)
(***************************************************************************)
PMMaxChecks == 2           \* the monitoring interval fires no further check beyond these in flight
maxRestartAttempts == 1    \* config.globalSettings.maxRestartAttempts
POMaxTimeSteps == 1        \* the orchestrator's clock advances at most this many steps

activityTimeout == 120000

PMProcessorOrder == <<"AutoProcessor", "QueueManager">>   \* this.processors, in insertion order
PMProcessors == {PMProcessorOrder[i] : i \in 1..Len(PMProcessorOrder)}
POProcessors == {"GameProcessor", "SystemProcessor"}
POTimeSteps == {activityTimeout + 1}
POMaxNow == 1 + POMaxTimeSteps * (activityTimeout + 1)

\* The constructors: initializeProcessorStatus / initializeProcessorStatuses
MgrInit ==
    /\ pm_isSystemRunning = FALSE
    /\ pm_monitoring = FALSE
    /\ pm_status = [p \in PMProcessors |->
                       [isRunning |-> FALSE, restartCount |-> 0, status |-> "stopped"]]
    /\ pm_started = [p \in PMProcessors |-> FALSE]
    /\ pm_checks = <<>>
    /\ po_isOrchestrating = FALSE
    /\ po_status = [p \in POProcessors |-> [isRunning |-> FALSE, lastActivity |-> 1]]
    /\ po_started = [p \in POProcessors |-> FALSE]
    /\ po_restarts = [p \in POProcessors |-> 0]
    /\ po_now = 1

\* ProcessorManager.startAll(): every processor's start(), then the monitoring interval
PMStartAll ==
    /\ ~pm_isSystemRunning
    /\ pm_isSystemRunning' = TRUE
    /\ pm_started' = [p \in PMProcessors |-> TRUE]
    /\ pm_status' = [p \in PMProcessors |->
                        [pm_status[p] EXCEPT !.isRunning = TRUE, !.status = "healthy"]]
    /\ pm_monitoring' = TRUE
    /\ UNCHANGED <<pm_checks, po_vars, sa_vars, gp_vars, wp_vars, ep_vars, life_vars>>

\* ProcessorManager.stopAll(): clearInterval, then every processor's stop()
PMStopAll ==
    /\ pm_isSystemRunning
    /\ pm_isSystemRunning' = FALSE
    /\ pm_monitoring' = FALSE
    /\ pm_started' = [p \in PMProcessors |-> FALSE]
    /\ pm_status' = [p \in PMProcessors |->
                        [pm_status[p] EXCEPT !.isRunning = FALSE, !.status = "stopped"]]
    /\ UNCHANGED <<pm_checks, po_vars, sa_vars, gp_vars, wp_vars, ep_vars, life_vars>>

\* The monitoring interval's callback: performSystemHealthCheck runs up to its first
\* await, of checkProcessorHealth for the first processor.
PMHealthTick ==
    /\ pm_monitoring
    /\ Len(pm_checks) < PMMaxChecks
    /\ pm_checks' = Append(pm_checks, [idx |-> 1, at |-> "health"])
    /\ UNCHANGED <<pm_isSystemRunning, pm_monitoring, pm_status, pm_started,
                   po_vars, sa_vars, gp_vars, wp_vars, ep_vars, life_vars>>

\* The health check in flight goes on to the next processor of the loop, or ends
\* (generateSystemMetrics and emitSystemMetrics change no state).
checksAfter(checks, i) ==
    IF checks[i].idx < Len(PMProcessorOrder)
    THEN [checks EXCEPT ![i] = [idx |-> @.idx + 1, at |-> "health"]]
    ELSE SubSeq(checks, 1, i - 1) \o SubSeq(checks, i + 1, Len(checks))

\* restartProcessor goes on: restartCount < maxRestartAttempts
restartAllowed(status) == status.restartCount < maxRestartAttempts

\* performSystemHealthCheck resumes after await checkProcessorHealth(processor) with
\* its result.  For a processor that is unhealthy and running it calls
\* restartProcessor, which runs up to its await of the delay: the test of
\* restartCount, then processor.stop().
PMHealthResult(i, isHealthy) ==
    /\ i \in 1..Len(pm_checks)
    /\ pm_checks[i].at = "health"
    /\ LET name == PMProcessorOrder[pm_checks[i].idx]
           status == pm_status[name] IN
       IF ~isHealthy /\ status.isRunning
       THEN IF restartAllowed(status)
            THEN /\ pm_status' = [pm_status EXCEPT ![name].status = "warning"]
                 /\ pm_started' = [pm_started EXCEPT ![name] = FALSE]
                 /\ pm_checks' = [pm_checks EXCEPT ![i].at = "restart"]
            ELSE /\ pm_status' = [pm_status EXCEPT ![name].status = "error"]
                 /\ pm_checks' = checksAfter(pm_checks, i)
                 /\ UNCHANGED pm_started
       ELSE /\ pm_status' = IF isHealthy /\ status.isRunning
                            THEN [pm_status EXCEPT ![name].status = "healthy"]
                            ELSE pm_status
            /\ pm_checks' = checksAfter(pm_checks, i)
            /\ UNCHANGED pm_started
    /\ UNCHANGED <<pm_isSystemRunning, pm_monitoring,
                   po_vars, sa_vars, gp_vars, wp_vars, ep_vars, life_vars>>

\* restartProcessor resumes after its delay: processor.start(), restartCount++
PMRestartResume(i) ==
    /\ i \in 1..Len(pm_checks)
    /\ pm_checks[i].at = "restart"
    /\ LET name == PMProcessorOrder[pm_checks[i].idx] IN
       /\ pm_started' = [pm_started EXCEPT ![name] = TRUE]
       /\ pm_status' = [pm_status EXCEPT ![name].restartCount = @ + 1,
                                         ![name].status = "healthy"]
    /\ pm_checks' = checksAfter(pm_checks, i)
    /\ UNCHANGED <<pm_isSystemRunning, pm_monitoring,
                   po_vars, sa_vars, gp_vars, wp_vars, ep_vars, life_vars>>

\* ProcessorOrchestrator.startCompleteAutomation(): startAllProcessors, then the
\* orchestration and health intervals
POStartCompleteAutomation ==
    /\ ~po_isOrchestrating
    /\ po_isOrchestrating' = TRUE
    /\ po_started' = [p \in POProcessors |-> TRUE]
    /\ po_status' = [p \in POProcessors |-> [isRunning |-> TRUE, lastActivity |-> po_now]]
    /\ UNCHANGED <<po_restarts, po_now, pm_vars, sa_vars, gp_vars, wp_vars, ep_vars,
                   life_vars>>

\* ProcessorOrchestrator.stopCompleteAutomation(): clearInterval twice, every
\* processor's stop method, isRunning = false in every status
POStopCompleteAutomation ==
    /\ po_isOrchestrating
    /\ po_isOrchestrating' = FALSE
    /\ po_started' = [p \in POProcessors |-> FALSE]
    /\ po_status' = [p \in POProcessors |-> [po_status[p] EXCEPT !.isRunning = FALSE]]
    /\ UNCHANGED <<po_restarts, po_now, pm_vars, sa_vars, gp_vars, wp_vars, ep_vars,
                   life_vars>>

\* monitorProcessorHealth's test of a status
unresponsive(status, now) == now - status.lastActivity > activityTimeout

\* The orchestration interval's callback (orchestrate): monitorProcessorHealth calls
\* restartProcessor for every processor without activity for two minutes, and
\* restartProcessor calls the processor's stop method and sets the timer of its start.
\* The interval (10 s) fires after the timers (5 s) of its previous tick.
POOrchestrate ==
    /\ po_isOrchestrating
    /\ \A p \in POProcessors : po_restarts[p] = 0
    /\ po_started' = [p \in POProcessors |->
                         IF unresponsive(po_status[p], po_now) THEN FALSE ELSE po_started[p]]
    /\ po_restarts' = [p \in POProcessors |->
                          IF unresponsive(po_status[p], po_now) THEN po_restarts[p] + 1
                          ELSE po_restarts[p]]
    /\ UNCHANGED <<po_isOrchestrating, po_status, po_now, pm_vars, sa_vars, gp_vars,
                   wp_vars, ep_vars, life_vars>>

\* The setTimeout callback of restartProcessor: the processor's start method and
\* updateProcessorStatus(processorName, true)
PORestartTimer(processorName) ==
    /\ po_restarts[processorName] > 0
    /\ po_restarts' = [po_restarts EXCEPT ![processorName] = @ - 1]
    /\ po_started' = [po_started EXCEPT ![processorName] = TRUE]
    /\ po_status' = [po_status EXCEPT ![processorName] =
                        [isRunning |-> TRUE, lastActivity |-> po_now]]
    /\ UNCHANGED <<po_isOrchestrating, po_now, pm_vars, sa_vars, gp_vars, wp_vars,
                   ep_vars, life_vars>>

\* Two minutes pass; the restart timers (5 s) have fired before.
POAdvanceTime(d) ==
    /\ po_now + d <= POMaxNow
    /\ \A p \in POProcessors : po_restarts[p] = 0
    /\ po_now' = po_now + d
    /\ UNCHANGED <<po_isOrchestrating, po_status, po_started, po_restarts, pm_vars,
                   sa_vars, gp_vars, wp_vars, ep_vars, life_vars>>

(***************************************************************************)
(* Specifications                                                          *)
(***************************************************************************)
\* The state after the module-level singletons are constructed.
Init == SAInit /\ GPInit /\ WPInit /\ EPInit /\ SPInit /\ ASInit /\ MgrInit

SpecAutomation == Init /\ [][SANext]_vars

GameNext == GPNextWith(GPInitialBalances)
GameLiveNext == GPNextWith({GPLiveBalance})

SpecGame == Init /\ [][GameNext]_vars

\* GameProcessor over its retention windows: the cleanup interval, stop() and
\* restart(), and a clock step as long as a window.
GPRetentionSteps == {cancelledRetention + 1, completedRetention + 1, expiredThreshold + 1}
GameRetentionNext ==
    \/ GameNext
    \/ GPCleanup
    \/ \E d \in GPRetentionSteps : GPAdvanceLong(d)
    \/ GPStop
    \/ GPRestart
    \/ GPDelayedStart

SpecGameRetention == Init /\ [][GameRetentionNext]_vars

\* GameProcessor's main loop on waiting matches.
GPWaitingSteps == {pairingTimeout + 1}
GameWaitingNext ==
    \/ \E b \in GPInitialBalances : GPCreatePlayer(b)
    \/ \E p \in GPPlayerIds : GPOpenWaitingMatch(p)
    \/ GPSweep
    \/ \E m \in 1..GPMaxMatches : GPMatchTimer(m)
    \/ \E d \in GPTimeSteps : GPAdvanceTime(d)
    \/ \E d \in GPWaitingSteps : GPAdvanceLong(d)

SpecGameWaiting == Init /\ [][GameWaitingNext]_vars

\* GameProcessor's queue over two rounds of pairing: players may queue again while
\* their match goes on.
GPQueueMatches == 2
GameQueueNext ==
    \/ \E b \in GPInitialBalances : GPCreatePlayer(b)
    \/ \E p \in GPPlayerIds : GPAddPlayerToQueue(p)
    \/ GPProcessMatchQueueUpTo(GPQueueMatches)
    \/ GPSweep
    \/ \E m \in 1..GPQueueMatches : GPMatchTimer(m)
    \/ \E d \in GPTimeSteps : GPAdvanceTime(d)

SpecGameQueue == Init /\ [][GameQueueNext]_vars

SpecWallet == Init /\ [][WPNext]_vars

\* GameProcessor with every player funded for all the matches of the run, while the
\* processor is running: the main interval, the match timers and the clock go on.
SpecGameLive ==
    Init /\ [][GameLiveNext]_vars
    /\ WF_vars(GPSweep)
    /\ WF_vars(\E d \in GPTimeSteps : GPAdvanceTime(d))
    /\ \A m \in 1..GPMaxMatches : WF_vars(GPMatchTimer(m))

\* WalletProcessor with its fee, reconciliation and cleanup tasks, its clock and its
\* lifecycle, for one player.
WPOpsPlayer == "w1"
WPOpsDeposits == {600}
WPOpsWithdrawals == {-600}
WalletOpsNext ==
    \/ \E a \in WPOpsDeposits : WPProcessDeposit(WPOpsPlayer, a)
    \/ \E a \in WPOpsWithdrawals : WPProcessWithdrawal(WPOpsPlayer, a)
    \/ WPProcessAutomaticDeposits
    \/ WPProcessAutomaticWithdrawals
    \/ \E id \in 1..WPMaxTx : WPReviewTimer(id)
    \/ \E a \in WPFeeAmounts : WPAddServerFee(a)
    \/ WPCollectSystemFees
    \/ WPSynchronizeBalances
    \/ WPCleanupWalletData
    \/ WPValidateTransactions
    \/ \E d \in WPTimeSteps : WPAdvanceTime(d)
    \/ WPStop
    \/ WPRestart
    \/ WPDelayedStart

SpecWalletOps == Init /\ [][WalletOpsNext]_vars

\* WalletProcessor with transactions handed to retryTransaction.
WalletReplayNext ==
    \/ \E a \in WPDepositAmounts : WPProcessDeposit(WPOpsPlayer, a)
    \/ \E a \in WPOpsWithdrawals : WPProcessWithdrawal(WPOpsPlayer, a)
    \/ WPProcessAutomaticDeposits
    \/ WPProcessAutomaticWithdrawals
    \/ \E id \in 1..WPMaxTx : WPReviewTimer(id)
    \/ \E id \in 1..WPMaxTx : WPRetryTransaction(id)

SpecWalletReplay == Init /\ [][WalletReplayNext]_vars

\* The lifecycle calls and callbacks of the four processors.
LifecycleNext ==
    \/ GPStop \/ GPRestart \/ GPDelayedStart
    \/ WPStop \/ WPRestart \/ WPDelayedStart
    \/ EPStop \/ EPRestart \/ EPDelayedStart
    \/ SPStop \/ SPRestart \/ SPDelayedStart
    \/ SPRestartProcessorsIfNeeded

SpecLifecycle == Init /\ [][LifecycleNext]_vars

\* AutomationService's public lifecycle methods and their callbacks.
ServiceNext ==
    \/ ASInitialize
    \/ ASInitializeContinue
    \/ ASEnableAutomation
    \/ ASStop
    \/ ASRestartAutomation
    \/ ASRestartTimer

SpecService == Init /\ [][ServiceNext]_vars

\* EventProcessor: events from outside, the dispatch tick, match timers, lifecycle.
EventNext ==
    \/ \E t \in EPExternalTypes, m \in EPMatches : EPCreateEvent(t, m, 0)
    \/ EPProcessEventQueue
    \/ \E m \in EPMatches : EPMatchTimer(m)
    \/ EPStop
    \/ EPRestart
    \/ EPDelayedStart

SpecEvent == Init /\ [][EventNext]_vars

\* EventProcessor's rule registry: rules added and removed from outside, score and
\* strike events, the dispatch tick.
EPRuleInputs == {<<"*", "always", "customThrows", 150>>, <<"score", "always", "custom", 90>>,
                 <<"score", "conditionThrows", "custom", 90>>}
EPRemovedTypes == {"*"}
EPRuleEvents == {<<"score", NoData>>, <<"score", winThreshold>>, <<"strike", 0>>}
EventRulesNext ==
    \/ \E e \in EPRuleEvents, m \in EPMatches : EPCreateEvent(e[1], m, e[2])
    \/ \E r \in EPRuleInputs : EPAddRule(r[1], r[2], r[3], r[4])
    \/ \E t \in EPRemovedTypes : EPRemoveRule(t)
    \/ EPProcessEventQueue

SpecEventRules == Init /\ [][EventRulesNext]_vars

\* ProcessorManager: startAll, stopAll, the monitoring interval and the health checks
\* it starts, with the result of every checkProcessorHealth call.
ManagerNext ==
    \/ PMStartAll
    \/ PMStopAll
    \/ PMHealthTick
    \/ \E i \in 1..PMMaxChecks, isHealthy \in BOOLEAN : PMHealthResult(i, isHealthy)
    \/ \E i \in 1..PMMaxChecks : PMRestartResume(i)

SpecManager == Init /\ [][ManagerNext]_vars

\* ProcessorManager and ProcessorOrchestrator, each with its start, its stop and
\* its restarts.
SupervisorNext ==
    \/ ManagerNext
    \/ POStartCompleteAutomation
    \/ POStopCompleteAutomation
    \/ POOrchestrate
    \/ \E p \in POProcessors : PORestartTimer(p)
    \/ \E d \in POTimeSteps : POAdvanceTime(d)

SpecSupervisor == Init /\ [][SupervisorNext]_vars

(***************************************************************************)
(* Properties                                                              *)
(***************************************************************************)
\* Sum of the amounts of the entries of a log at the indices idx.
SumAmountsAt(log, idx) == SumOver(idx, [i \in idx |-> log[i].amount])

\* The signed sum of the completed transactions of a match.
MatchSum(matchId) ==
    SumAmountsAt(gp_transactions,
                 {i \in 1..Len(gp_transactions) :
                     /\ gp_transactions[i].matchId = matchId
                     /\ gp_transactions[i].status = "completed"})

\* C1: for every GameProcessor match that is completed, the signed sum of the
\* completed transactions recorded with its matchId (bets, win, fee) is zero.
C1_MatchConservation ==
    \A m \in DOMAIN gp_matches :
        gp_matches[m].status = "completed" => MatchSum(m) = 0

\* C2: completeMatch on a match that is already completed changes neither the
\* wallets (winner, developer) nor the transaction log.
C2_SecondCompleteIsNoOp ==
    [][\A m \in DOMAIN sa_matches, w \in SAUsers :
          (sa_matches[m].status = "completed" /\ SACompleteMatch(m, w))
              => UNCHANGED <<sa_wallets, sa_transactions>>]_vars

\* C3: for each GameProcessor match the winner payout is applied at most once: the
\* log holds at most one win transaction per match.
C3_PayoutAtMostOnce ==
    \A m \in 1..GPMaxMatches :
        Cardinality({i \in 1..Len(gp_transactions) :
                        /\ gp_transactions[i].matchId = m
                        /\ gp_transactions[i].type = "win"}) <= 1

\* C4: every WalletProcessor balance is >= 0, and processing a queued withdrawal
\* that would take its player's balance below zero fails it and leaves the
\* balances as they are.
C4_NoNegativeBalance ==
    /\ \A p \in WPPlayers : getPlayerBalance(wp_playerBalances, p) >= 0
    /\ \A i \in 1..Len(wp_pendingWithdrawals) :
          LET id == wp_pendingWithdrawals[i]
              w == wp_tx[id]
              after == processWithdrawalTransaction(WPState, id) IN
          (w.amount < 0 /\ getPlayerBalance(wp_playerBalances, w.playerId) + w.amount < 0)
              => (after.tx[id].status = "failed" /\ after.bal = wp_playerBalances)

\* C4 witness: an overdrawing withdrawal was processed and failed, after a deposit
\* was credited and a reviewed withdrawal was auto-approved by its timer.
C4_Witness ==
    /\ \E id \in DOMAIN wp_tx :
          /\ wp_tx[id].type = "withdrawal" /\ wp_tx[id].status = "failed"
          /\ wp_tx[id].amount < 0
          /\ getPlayerBalance(wp_playerBalances, wp_tx[id].playerId) + wp_tx[id].amount < 0
    /\ \E id \in DOMAIN wp_tx : wp_tx[id].type = "deposit" /\ wp_tx[id].status = "completed"
    /\ \E id \in DOMAIN wp_tx :
          /\ wp_tx[id].type = "withdrawal" /\ wp_tx[id].status = "completed"
          /\ id \notin wp_reviewTimers

\* C5: createMatch with a player whose balance is below betAmount leaves the match
\* set and both wallets unchanged.
C5_InsufficientFundsNoChange ==
    [][\A p1 \in SAPlayers, p2 \in SAPlayers, b \in SABetAmounts :
          (SACreateMatch(p1, p2, b)
             /\ (getWalletBalance(sa_wallets, p1) < b \/ getWalletBalance(sa_wallets, p2) < b))
              => UNCHANGED <<sa_matches, sa_wallets>>]_vars

\* C6: with two players holding at least 10, createMatch with betAmount 10 takes
\* exactly 10 from each; the first completeMatch of that match for one of its
\* players adds exactly 16 to the winner and 4 to the developer and leaves every
\* other balance, the loser's included, unchanged.
C6_HappyPath ==
    [][/\ \A p1 \in SAPlayers, p2 \in SAPlayers :
            (/\ p1 # p2
             /\ getWalletBalance(sa_wallets, p1) >= SADefaultBet
             /\ getWalletBalance(sa_wallets, p2) >= SADefaultBet
             /\ SACreateMatch(p1, p2, SADefaultBet))
            => sa_wallets' = [sa_wallets EXCEPT ![p1] = @ - 10, ![p2] = @ - 10]
       /\ \A m \in DOMAIN sa_matches, w \in SAPlayers :
            (/\ sa_matches[m].status = "pending"
             /\ sa_matches[m].betAmount = SADefaultBet
             /\ sa_matches[m].player1 # sa_matches[m].player2
             /\ w \in {sa_matches[m].player1, sa_matches[m].player2}
             /\ SACompleteMatch(m, w))
            => sa_wallets' = [sa_wallets EXCEPT ![w] = @ + 16, !["developer"] = @ + 4]
      ]_vars

\* C6 witness: u1 and u2 held 15 each, paid their bets of 10 in the only match, and
\* u1 was completed as the winner: 5 + 16 for u1, 5 for u2, 4 for the developer.
C6_Witness ==
    \E m \in DOMAIN sa_matches :
        /\ sa_matches[m] = [player1 |-> "u1", player2 |-> "u2", betAmount |-> SADefaultBet,
                            winner |-> "u1", status |-> "completed"]
        /\ Len(sa_matches) = 1 /\ Len(sa_transactions) = 2
        /\ sa_wallets["u1"] = 21 /\ sa_wallets["u2"] = 5 /\ sa_wallets["developer"] = 4

\* The transitions of the match state machine (a match may also keep its status).
AllowedTransition(from, to) ==
    \/ from = to
    \/ <<from, to>> \in {<<"waiting", "active">>, <<"waiting", "cancelled">>,
                         <<"active", "finishing">>, <<"active", "cancelled">>,
                         <<"finishing", "completed">>}

\* C7: the status of a GameProcessor match only moves along waiting->active,
\* waiting->cancelled, active->finishing, active->cancelled, finishing->completed;
\* a completed or cancelled match keeps its status.
C7_StatusMonotonic ==
    [][\A m \in (DOMAIN gp_matches) \cap (DOMAIN gp_matches') :
          AllowedTransition(gp_matches[m].status, gp_matches'[m].status)]_vars

\* C8: a GameProcessor match has a winner if and only if its status is completed.
C8_WinnerIffCompleted ==
    \A m \in DOMAIN gp_matches :
        (gp_matches[m].winner # NoPlayer) <=> (gp_matches[m].status = "completed")

PlayerMatchNet(matchId, playerId) ==
    SumAmountsAt(gp_transactions,
                 {i \in 1..Len(gp_transactions) :
                     /\ gp_transactions[i].matchId = matchId
                     /\ gp_transactions[i].playerId = playerId})

HasTx(matchId, playerId, type) ==
    \E i \in 1..Len(gp_transactions) :
        /\ gp_transactions[i].matchId = matchId
        /\ gp_transactions[i].playerId = playerId
        /\ gp_transactions[i].type = type

\* C10: in a match cancelled because a bet deduction failed, no bet is deducted
\* after the cancellation decision (if the first player was not charged, neither is
\* the second), and once the refund has been processed the match's transactions
\* leave every player's balance where it was before the pairing.
C10_NoPartialDeduction ==
    \A m \in DOMAIN gp_matches :
        gp_matches[m].status = "cancelled" =>
            LET ps == gp_matches[m].players IN
            /\ ~HasTx(m, ps[1], "bet") => ~HasTx(m, ps[2], "bet")
            /\ (\E i \in 1..Len(ps) : HasTx(m, ps[i], "refund"))
                  => \A i \in 1..Len(ps) : PlayerMatchNet(m, ps[i]) = 0

\* C11: while WalletProcessor is stopped (after stop() and until a start), no player
\* balance, no developer balance and no transaction status changes.
C11_StoppedWalletIsQuiet ==
    [][~wp_life.isRunning =>
          /\ wp_playerBalances' = wp_playerBalances
          /\ wp_developerBalance' = wp_developerBalance
          /\ \A id \in DOMAIN wp_tx : wp_tx'[id].status = wp_tx[id].status]_vars

\* C12: while EventProcessor is stopped, no event is processed and no event is added
\* to the queue by a match timer.
C12_StoppedEventProcessorIsQuiet ==
    [][~ep_life.isRunning =>
          /\ ep_events' = ep_events
          /\ (ep_eventQueue' # ep_eventQueue => ep_matchTimers' = ep_matchTimers)]_vars

\* The lifecycle records of the processors C13 is about.
ProcessorLives == {gp_life, wp_life, ep_life, sp_life}

\* C13: a processor whose last lifecycle call was stop() is stopped and has no
\* periodic task registered, also when a restart() was pending at that stop().
C13_StopIsFinal ==
    \A l \in ProcessorLives : l.lastCall = "stop" => (~l.isRunning /\ l.live = 0)

\* C14: each periodic task of GameProcessor, WalletProcessor and EventProcessor has at
\* most one live interval, after any sequence of stop() and restart() calls.
C14_SingleRegistration ==
    /\ gp_life.live <= 1
    /\ wp_life.live <= 1
    /\ ep_life.live <= 1

\* C14 witness: every one of the three processors was restarted more than once before
\* a delayed start fired, and runs again with another delayed start still to fire.
C14_Witness ==
    \A l \in {gp_life, wp_life, ep_life} :
        l.isRunning /\ l.live = 1 /\ l.starts >= 1 /\ l.lastCall = "restart"

\* C15: each named task of AutomationService has at most one live interval.
C15_ServiceSingleRegistration == as_life.live <= 1

\* The completed amounts recorded for a player in the transaction map.
RecordedCompletedSum(playerId) ==
    LET done == {id \in DOMAIN wp_tx : /\ wp_tx[id].stored
                                        /\ wp_tx[id].status = "completed"
                                        /\ wp_tx[id].playerId = playerId} IN
    SumOver(done, [id \in done |-> wp_tx[id].amount])

\* C16: for every player the cached balance equals the sum of the amounts of the
\* completed transactions recorded for that player.
C16_BalanceIsLedgerSum ==
    \A p \in WPPlayers :
        getPlayerBalance(wp_playerBalances, p) = RecordedCompletedSum(p)

\* C17: once reconciliation has found a discrepancy, no deposit or withdrawal is
\* settled for a player whose balance differs from the recorded completed amounts by
\* more than the tolerance.
C17_DiscrepancyHaltsSettlement ==
    [][\A p \in WPPlayers :
          (/\ wp_discrepancyWarned
           /\ Abs(getPlayerBalance(wp_playerBalances, p) - RecordedCompletedSum(p))
                 > integrityTolerance)
          => /\ getPlayerBalance(wp_playerBalances', p) = getPlayerBalance(wp_playerBalances, p)
             /\ \A id \in DOMAIN wp_tx :
                   (wp_tx[id].playerId = p /\ wp_tx[id].status # "completed")
                       => wp_tx'[id].status # "completed"]_vars

\* C18: a withdrawal tick over a single queued withdrawal whose requested amount is
\* within [minWithdrawal, maxWithdrawal] and within the balance completes it and
\* takes exactly that amount when it is at most autoApprovalLimit, and puts it in
\* review with the balance unchanged when it is above.
C18_WithdrawalPolicy ==
    [][(WPProcessAutomaticWithdrawals /\ Len(wp_pendingWithdrawals) = 1) =>
          LET id == wp_pendingWithdrawals[1]
              p == wp_tx[id].playerId
              requested == -wp_tx[id].amount
              balance == getPlayerBalance(wp_playerBalances, p) IN
          (requested >= minWithdrawal /\ requested <= maxWithdrawal /\ requested <= balance)
            => IF requested <= autoApprovalLimit
               THEN /\ wp_tx'[id].status = "completed"
                    /\ getPlayerBalance(wp_playerBalances', p) = balance - requested
               ELSE /\ wp_tx'[id].status = "review"
                    /\ getPlayerBalance(wp_playerBalances', p) = balance]_vars

\* C19: processDeposit / processWithdrawal with an amount outside the configured
\* bounds creates no transaction and queues nothing.
C19_OutOfBoundsRejected ==
    [][/\ \A p \in WPPlayers, a \in WPDepositAmounts :
            (WPProcessDeposit(p, a) /\ (a < minDeposit \/ a > maxDeposit))
                => UNCHANGED <<wp_tx, wp_pendingDeposits>>
       /\ \A p \in WPPlayers, a \in WPWithdrawalAmounts :
            (WPProcessWithdrawal(p, a) /\ (a < minWithdrawal \/ a > maxWithdrawal))
                => UNCHANGED <<wp_tx, wp_pendingWithdrawals>>]_vars

\* The amounts of a player's completed transactions, every transaction counted once.
PostedOnceSum(playerId) ==
    LET done == {id \in DOMAIN wp_tx : /\ wp_tx[id].status = "completed"
                                        /\ wp_tx[id].playerId = playerId} IN
    SumOver(done, [id \in done |-> wp_tx[id].amount])

C21_PriorityOrder ==
    \A k \in 1..Len(ep_events) :
        LET ran == ep_events[k].ran IN
        \A i \in 1..Len(ran), j \in 1..Len(ran) :
            i < j => \/ ran[i].priority > ran[j].priority
                     \/ ran[i].priority = ran[j].priority /\ ran[i].id < ran[j].id

\* For some event a rule registered later ran before an earlier one (its priority is
\* higher), and for some event two rules of one priority ran.
C21_Witness ==
    /\ \E k \in 1..Len(ep_events) :
          LET ran == ep_events[k].ran IN
          \E i \in 1..Len(ran), j \in 1..Len(ran) : i < j /\ ran[i].id > ran[j].id
    /\ \E k \in 1..Len(ep_events) :
          LET ran == ep_events[k].ran IN
          \E i \in 1..Len(ran), j \in 1..Len(ran) :
              i < j /\ ran[i].priority = ran[j].priority

\* C22: for every processed score event that carries the winning number of points,
\* the first action that ran is the built-in win-condition rule's (triggerMatchEnd).
C22_WinRuleFirst ==
    \A k \in 1..Len(ep_events) :
        LET e == ep_events[k] IN
        (e.event.type = "score" /\ e.event.data >= winThreshold /\ Len(e.ran) > 0)
            => e.ran[1].action = "triggerMatchEnd"

\* The events of the queue that processEvent stores: those no condition throws for.
StoredOf(queue) ==
    LET Reaches(event) ==
            \A i \in 1..Len(typedRules(ep_rules, event)) :
                ~conditionThrows(typedRules(ep_rules, event)[i])
    IN SelectSeq(queue, Reaches)

\* The entries of ep_events written by the step.
NewEntries == SubSeq(ep_events', Len(ep_events) + 1, Len(ep_events'))

\* C23: a step in which no rule ran (createEvent, a timer) only appends to the queue;
\* a step in which rules ran is a dispatch tick: it processed the events that were in
\* the queue when it started, in queue order, and the queue it leaves holds exactly
\* the events the actions created during the tick.
C23_TickBatching ==
    [][IF ep_events' = ep_events /\ ep_errorEvents' = ep_errorEvents
       THEN /\ Len(ep_eventQueue') >= Len(ep_eventQueue)
            /\ SubSeq(ep_eventQueue', 1, Len(ep_eventQueue)) = ep_eventQueue
       ELSE /\ Len(ep_events') >= Len(ep_events)
            /\ SubSeq(ep_events', 1, Len(ep_events)) = ep_events
            /\ [i \in 1..Len(NewEntries) |-> NewEntries[i].event] = StoredOf(ep_eventQueue)
            /\ Len(ep_eventQueue') = ep_totalEvents' - ep_totalEvents]_vars

\* A strike was processed and the foul its handler created waits in the queue.
C23_Witness ==
    /\ \E k \in 1..Len(ep_events) : ep_events[k].event.type = "strike"
    /\ \E i \in 1..Len(ep_eventQueue) : ep_eventQueue[i].type = "foul"

\* C24: in a dispatch tick every event of the queue whose rules could be selected is
\* stored as processed, the actions of all its matching rules ran (those after an
\* action that threw as well), and every action that threw is counted.
C24_RuleErrorsIsolated ==
    [][ep_events' # ep_events =>
          /\ Len(NewEntries) = Len(StoredOf(ep_eventQueue))
          /\ \A i \in 1..Len(NewEntries) :
                LET matching == matchingRules(ep_rules, NewEntries[i].event) IN
                [j \in 1..Len(NewEntries[i].ran) |-> NewEntries[i].ran[j].id]
                    = [j \in 1..Len(matching) |-> matching[j].id]
          /\ ep_errorEvents' - ep_errorEvents >=
                Cardinality({<<i, j>> \in (1..Len(NewEntries)) \X (1..(8 + EPMaxRules)) :
                                 /\ j <= Len(NewEntries[i].ran)
                                 /\ NewEntries[i].ran[j].threw})]_vars

\* An event for which an action ran after an action that threw.
C24_Witness ==
    \E k \in 1..Len(ep_events) :
        LET ran == ep_events[k].ran IN
        \E i \in 1..Len(ran), j \in 1..Len(ran) :
            i < j /\ ran[i].threw /\ ~ran[j].threw

\* C25: a completed or failed transaction keeps its status, and a transaction in
\* review stays in review or becomes completed.
C25_TerminalStatusIsFinal ==
    [][\A id \in DOMAIN wp_tx :
          /\ wp_tx[id].status \in {"completed", "failed"}
                => wp_tx'[id].status = wp_tx[id].status
          /\ wp_tx[id].status = "review"
                => wp_tx'[id].status \in {"review", "completed"}]_vars

\* A fee the watchdog failed, next to a withdrawal that went through review and was
\* completed.
C25_Witness ==
    /\ \E id \in DOMAIN wp_tx :
          wp_tx[id].type = "server_fee" /\ wp_tx[id].status = "failed"
    /\ \E id \in DOMAIN wp_tx :
          /\ wp_tx[id].type = "withdrawal"
          /\ wp_tx[id].status = "completed"
          /\ Abs(wp_tx[id].amount) > autoApprovalLimit

\* C26: a transaction that has been pending for more than five minutes leaves the
\* pending status only as follows: a deposit whose retry count has passed 3 is failed
\* and is in no queue, and a transaction of another type is failed.
C26_StuckWatchdog ==
    [][\A id \in DOMAIN wp_tx :
          (wp_tx[id].status = "pending" /\ wp_now - wp_tx[id].timestamp > stuckThreshold)
             => IF wp_tx[id].type = "deposit"
                THEN wp_tx'[id].retryCount > maxRetryCount
                        => /\ wp_tx'[id].status = "failed"
                           /\ \A i \in 1..Len(wp_pendingDeposits') :
                                 wp_pendingDeposits'[i] # id
                ELSE wp_tx'[id].status \in {"pending", "failed"}]_vars

\* C27: a completeMatch call whose matchId names no match leaves the matches, the
\* wallets and the transaction log as they are.
C27_UnknownMatchNoChange ==
    [][\A m \in SAMatchIds, w \in SAUsers :
          (m \notin DOMAIN sa_matches /\ SACompleteMatch(m, w))
             => UNCHANGED <<sa_matches, sa_wallets, sa_transactions>>]_vars

\* completeMatch was called with an id that names no match, in a run with a match, a
\* funded wallet and a logged payout.
C27_Witness ==
    /\ sa_completeMissed
    /\ Len(sa_matches) > 0
    /\ Len(sa_transactions) > 0
    /\ \E u \in SAPlayers : sa_wallets[u] > 0

\* The retention window of a terminal status.
RetentionOf(status) ==
    IF status = "completed" THEN completedRetention ELSE cancelledRetention

\* C28: a match leaves the match map only when it is completed or cancelled and more
\* than its retention window (1 h completed, 30 min cancelled) has passed since its
\* endTime.
C28_EvictionAfterRetention ==
    [][\A m \in DOMAIN gp_matches :
          m \notin DOMAIN gp_matches'
             => /\ gp_matches[m].status \in {"completed", "cancelled"}
                /\ Truthy(gp_matches[m].endTime)
                /\ gp_now - gp_matches[m].endTime > RetentionOf(gp_matches[m].status)]_vars

C30_TimerOnlyWhileActive ==
    \A m \in DOMAIN gp_timers :
        m \in DOMAIN gp_matches /\ gp_matches[m].status = "active"

\* The entries of the log of a given type, match and player.
TxOf(matchId, playerId, type) ==
    {i \in 1..Len(gp_transactions) :
        /\ gp_transactions[i].matchId = matchId
        /\ gp_transactions[i].playerId = playerId
        /\ gp_transactions[i].type = type}

\* C31: the refund of a cancelled match is posted at most once per player: after any
\* number of main-loop sweeps the log holds at most one refund transaction per
\* player for the match.
C31_RefundAtMostOnce ==
    \A m \in 1..GPMaxMatches, p \in GPPlayerIds :
        Cardinality(TxOf(m, p, "refund")) <= 1

\* C32: a match that has been cancelled never pays out.  processAutomaticRefund runs
\* for cancelled matches only, so a refund in the log tells that the match was
\* cancelled: no match has a refund and a win transaction.
C32_CancelledNeverPays ==
    \A m \in 1..GPMaxMatches :
        (\E p \in GPPlayerIds : TxOf(m, p, "refund") # {})
            => \A p \in GPPlayerIds : TxOf(m, p, "win") = {}

\* The players of the matches a step added to the match map.
NewlyMatched ==
    {gp_matches'[m].players[i] :
        m \in (DOMAIN gp_matches') \ (DOMAIN gp_matches), i \in 1..2}

\* C34: processMatchQueue loses no queued player: every id it takes off the queue
\* that names a player of the map is in a match created by the same tick, and the
\* match map never holds more than maxConcurrentMatches matches.
C34_QueueLosesNoPlayer ==
    [][GPProcessMatchQueue =>
          /\ \A i \in 1..Len(gp_matchQueue) :
                (/\ gp_matchQueue[i] \in DOMAIN gp_players
                 /\ ~InQueue(gp_matchQueue', gp_matchQueue[i]))
                    => gp_matchQueue[i] \in NewlyMatched
          /\ Cardinality(DOMAIN gp_matches') <= maxConcurrentMatches]_vars

\* The matches of the map that are not over and have the player.
OpenMatchesOf(playerId) ==
    {m \in DOMAIN gp_matches :
        /\ gp_matches[m].status \in {"waiting", "active", "finishing"}
        /\ \E i \in 1..Len(gp_matches[m].players) : gp_matches[m].players[i] = playerId}

\* C33: a player is a member of at most one match that is waiting, active or
\* finishing, after any sequence of addPlayerToQueue calls and queue and sweep ticks.
C33_OneOpenMatchPerPlayer ==
    \A p \in GPPlayerIds : Cardinality(OpenMatchesOf(p)) <= 1

\* The match_end events of a match in a queue.
MatchEndsIn(queue, matchId) ==
    {i \in 1..Len(queue) : queue[i].type = "match_end" /\ queue[i].matchId = matchId}

\* The score events with the winning number of points a step stored for a match.
WinningScores(matchId) ==
    {i \in 1..Len(NewEntries) :
        /\ NewEntries[i].event.type = "score"
        /\ NewEntries[i].event.matchId = matchId
        /\ NewEntries[i].event.data >= winThreshold}

\* C35: a dispatch tick enqueues exactly one match_end event of the match for every
\* score event with the winning number of points it processed.
C35_OneMatchEndPerWin ==
    [][ep_events' # ep_events =>
          \A m \in EPMatches :
              Cardinality(MatchEndsIn(ep_eventQueue', m)) = Cardinality(WinningScores(m))]_vars

\* The processed match_start and match_end events of a match.
LifecycleEvents(matchId) ==
    {k \in 1..Len(ep_events) :
        /\ ep_events[k].event.matchId = matchId
        /\ ep_events[k].event.type \in {"match_start", "match_end"}}

\* handleMatchEnd ran for the match and no match_start was processed after it.
MatchEnded(matchId) ==
    /\ LifecycleEvents(matchId) # {}
    /\ LET last == CHOOSE k \in LifecycleEvents(matchId) :
                       \A j \in LifecycleEvents(matchId) : j <= k IN
       /\ ep_events[last].event.type = "match_end"
       /\ \E i \in 1..Len(ep_events[last].ran) :
             ep_events[last].ran[i].action = "handleMatchEnd"

\* C36: once the match_end event of a match has been processed, the match timer
\* creates no timeout event for the match.
C36_NoTimeoutAfterMatchEnd ==
    [][\A m \in EPMatches :
          MatchEnded(m) =>
              ~(/\ Len(ep_eventQueue') = Len(ep_eventQueue) + 1
                /\ ep_eventQueue'[Len(ep_eventQueue')].type = "timeout"
                /\ ep_eventQueue'[Len(ep_eventQueue')].matchId = m)]_vars

\* C37: a dispatch tick records every event it takes off the queue in the history
\* (ep_events holds the events stored with processed = true, so its length is
\* stats.processedEvents), and processedEvents <= totalEvents afterwards.
C37_DrainedEventsRecorded ==
    [][EPProcessEventQueue =>
          /\ [i \in 1..Len(NewEntries) |-> NewEntries[i].event] = ep_eventQueue
          /\ Len(ep_events') <= ep_totalEvents']_vars

\* The total of all wallets, the developer wallet included.
WalletTotal(w) == SumOver(SAUsers, [u \in SAUsers |-> w[u]])

\* C38: completeMatch credits what createMatch deducted for the match, so that the
\* two calls together leave the total of all wallets as it was, and it credits one
\* of the two players of the match.
C38_MatchPreservesTotal ==
    [][\A m \in DOMAIN sa_matches, w \in SAUsers :
          SACompleteMatch(m, w) =>
              /\ WalletTotal(sa_wallets') - WalletTotal(sa_wallets) = sa_deducted[m]
              /\ w \in {sa_matches[m].player1, sa_matches[m].player2}]_vars

\* C39: a processor's restartCount never exceeds maxRestartAttempts, whatever the
\* interleaving of the health checks in flight and their restartProcessor calls.
C39_RestartCountBounded ==
    \A p \in PMProcessors : pm_status[p].restartCount <= maxRestartAttempts

\* C40: while the manager is stopped (after stopAll() and until startAll()) no step
\* starts a processor it manages, and the same for the orchestrator between
\* stopCompleteAutomation() and startCompleteAutomation().
C40_NoStartWhileStopped ==
    [][/\ (~pm_isSystemRunning /\ ~pm_isSystemRunning')
             => \A p \in PMProcessors : pm_started'[p] => pm_started[p]
       /\ (~po_isOrchestrating /\ ~po_isOrchestrating')
             => \A p \in POProcessors : po_started'[p] => po_started[p]]_vars

====
